---- MODULE Spec2Model ----
(***************************************************************************)
(* Model of secretable's secret-encryption and key-custody code:           *)
(*   pkg/crypto   (EncryptWithPub / DecryptWithPriv, EncryptWithPhrase /   *)
(*                 DecryptWithPhrase, padding)                             *)
(*   pkg/handlers (setPass, ResetPass, getPrivkeyAsBytes)                  *)
(*   pkg/tables   (SetKey, update, GetKey)                                 *)
(*                                                                         *)
(* Byte strings are sequences of naturals below 256.  Texts stored in a    *)
(* sheet cell are sequences of base-58 digit values (0..57).  The library  *)
(* primitives (SHA-512, AES, HMAC, P-521, PBKDF2, GCM) are replaced by     *)
(* small arithmetic stand-ins that keep the shape the code relies on:      *)
(* lengths, which bytes feed which primitive, and invertibility.           *)
(***************************************************************************)
EXTENDS Integers, Sequences, FiniteSets, TLC

VARIABLES
    \* ---- pkg/handlers, pkg/config, pkg/tables ----
    mastePass,   \* Handler.mastePass (<<>> is "", i.e. locked)
    confSalt,    \* Config.Salt held in memory
    fileSalt,    \* salt written in the config file
    remoteKey,   \* text of the first cell of the Keys sheet (<<>> = empty)
    cacheKey,    \* TablesProvider.key
    remoteMeta,  \* history: who sealed the record now in remoteKey
    cacheMeta,   \* history: who sealed the record now in cacheKey
    last,        \* outcome of the last handler that ran
    \* ---- pkg/crypto, asymmetric envelope ----
    priv,        \* ecdsa private scalar D of the recipient
    msg,         \* input of EncryptWithPub
    padded,      \* paddedIn computed inside EncryptWithPub
    blob,        \* the cipher blob handed to DecryptWithPriv
    origin,      \* how blob was made: idle / honest / forged / tampered / truncated
    tamPos,      \* position of the flipped bit (0 = none)
    dec,         \* result of DecryptWithPriv
    \* ---- pkg/crypto, symmetric envelope ----
    phr,         \* inputs and results of EncryptWithPhrase / DecryptWithPhrase
    \* ---- concurrent message handlers ----
    hs,          \* per goroutine: position and locals of the handler it runs
    probe,       \* arguments and result of the last getPrivkey call observed
    \* ---- pkg/tables: the spreadsheet and its cached copy ----
    sheet,       \* the remote spreadsheet: rows of the Secrets sheet, grid of the Keys sheet
    tp,          \* TablesProvider.secrets and TablesProvider.key, with the cycle that set each
    upd,         \* the refresh goroutine: position, cycle, fetched data, last log line
    rd,          \* a handler reading the cache: GetKey, then GetSecrets
    wr,          \* the last write call (AddSecrets / DeleteSecrets / SetKey) and its outcome
    \* ---- pkg/tables: slices handed out by the getters ----
    mem,         \* backing arrays of the cached slices and of the slices a caller holds
    \* ---- pkg/providers: the JSON file storage ----
    js,          \* JSONStorage: the file, the holder of mx, the writer and the reader
    \* ---- pkg/handlers: the middleware chain ----
    ch           \* log output, rows handed to the store, dialogue states, the last message

handlerVars == <<mastePass, confSalt, fileSalt, remoteKey, cacheKey, remoteMeta, cacheMeta, last>>
cryptoVars == <<priv, msg, padded, blob, origin, tamPos, dec>>
concVars == <<hs, probe>>
tabVars == <<sheet, tp, upd, rd, wr>>
storeVars == <<sheet, tp, upd, rd, wr, mem, js, ch>>
extVars == <<hs, probe, sheet, tp, upd, rd, wr, mem, js, ch>>
vars == <<mastePass, confSalt, fileSalt, remoteKey, cacheKey, remoteMeta, cacheMeta, last,
          priv, msg, padded, blob, origin, tamPos, dec, phr, hs, probe,
          sheet, tp, upd, rd, wr, mem, js, ch>>

(***************************************************************************)
(* Sizes fixed by the program.                                             *)
(***************************************************************************)
hashSize == 64
BlockSize == 16
IVSize == 16
PadSize == 32
AESKeySize == 32
NonceSize == 12
GCMTagSize == 16
CurveOrder == 251
CurveG == 2

(***************************************************************************)
(* Bounds of the model.                                                    *)
(***************************************************************************)
MaxPriv == 2
MaxEph == 2
MaxIV == 1
MaxFill == 1
MaxTamperLen == 1
MaxPass == 2
MaxSalt == 2
MaxNonce == 2
NumGoroutines == 2
MaxCell == 1
MaxRows == 1
MaxCycles == 1

MaxAppends == 2

MaxReads == 2

MaxMsgs == 3

MaxSecrets == 3

MaxDeletes == 2

NoBytes == <<>>

(***************************************************************************)
(* Byte-string helpers.                                                    *)
(***************************************************************************)
\* sum of s[lo..hi], halving the range
RECURSIVE SumRange(_, _, _)
SumRange(s, lo, hi) ==
    IF lo > hi THEN 0
    ELSE IF lo = hi THEN s[lo]
    ELSE LET mid == (lo + hi) \div 2
         IN  SumRange(s, lo, mid) + SumRange(s, mid + 1, hi)

SumSeq(s) == SumRange(s, 1, Len(s))

Slice(s, lo, hi) == [i \in 1..(hi - lo) |-> s[lo + i]]

Fill(n, b) == [i \in 1..n |-> b]

FlipBit(b, k) == IF (b \div (2 ^ k)) % 2 = 1 THEN b - 2 ^ k ELSE b + 2 ^ k

FlipAt(s, pos, k) == [s EXCEPT ![pos] = FlipBit(s[pos], k)]

(***************************************************************************)
(* Stand-ins for the library primitives of pkg/crypto/assymetric.go.       *)
(* A curve point is a number 1..CurveOrder-1; 0 is "x == nil".             *)
(***************************************************************************)
ScalarMult(point, k) == (point * k) % CurveOrder

PublicKey(d) == ScalarMult(CurveG, d)

YCoord(x) == (x * x + 7) % 256

\* elliptic.Marshal: uncompressed form, 0x04 || X || Y
Marshal(point) == <<4, point, YCoord(point)>>

\* elliptic.Unmarshal: nil unless the bytes are an uncompressed point on the curve
Unmarshal(data) ==
    IF /\ Len(data) = 3
       /\ data[1] = 4
       /\ data[2] \in 1..(CurveOrder - 1)
       /\ data[3] = YCoord(data[2])
    THEN data[2]
    ELSE 0

\* sha512.Sum512(x.Bytes()): hashSize bytes
Sum512(x) == [i \in 1..hashSize |-> (x * 3 + i) % 256]

\* hmac.New(sha512.New, key); Write(data); Sum(nil)
Hmac(key, data) ==
    LET total == SumSeq(data)
    IN  [j \in 1..hashSize |-> (key[((j - 1) % Len(key)) + 1] + j + total) % 256]

hmacEqual_Prefix(mac, tag) == Slice(mac, 0, AESKeySize) = Slice(tag, 0, AESKeySize)

\* hmac.Equal
hmacEqual(mac, tag) == mac = tag

RECURSIVE EncBlocks(_, _, _, _)
EncBlocks(data, prev, key, b) ==
    IF b * BlockSize > Len(data) THEN <<>>
    ELSE LET blk == [j \in 1..BlockSize |->
                        (data[(b - 1) * BlockSize + j] + prev[j] + key[j] + key[j + BlockSize]) % 256]
         IN  blk \o EncBlocks(data, blk, key, b + 1)

\* encryptCBC: CryptBlocks panics unless data is whole blocks
encryptCBC(data, iv, key) ==
    IF Len(data) % BlockSize /= 0 THEN [out |-> <<>>, err |-> "panic"]
    ELSE [out |-> EncBlocks(data, iv, key, 1), err |-> "none"]

\* decryptCBC: CryptBlocks panics unless data is whole blocks
decryptCBC(data, iv, key) ==
    IF Len(data) % BlockSize /= 0 THEN [out |-> <<>>, err |-> "panic"]
    ELSE [out |-> [i \in 1..Len(data) |->
                     (data[i] + 768
                      - (IF i <= BlockSize THEN iv[i] ELSE data[i - BlockSize])
                      - key[((i - 1) % BlockSize) + 1]
                      - key[((i - 1) % BlockSize) + 1 + BlockSize]) % 256],
          err |-> "none"]

(***************************************************************************)
(* Padding, pkg/crypto/assymetric.go.                                      *)
(***************************************************************************)
removePadding(body) ==
    IF Len(body) = 0 THEN [out |-> <<>>, err |-> "panic"]
    ELSE LET l == body[Len(body)]
         IN  IF l > PadSize THEN [out |-> <<>>, err |-> "padding incorrect"]
             ELSE IF l > Len(body) THEN [out |-> <<>>, err |-> "panic"]
             ELSE [out |-> Slice(body, 0, Len(body) - l), err |-> "none"]

addPadding_NoFullBlock(body) ==
    LET l == (PadSize - (Len(body) % PadSize)) % PadSize
    IN  body \o [i \in 1..l |-> IF i = l THEN l ELSE 0]

addPadding_AllBytes(body) ==
    LET l == PadSize - (Len(body) % PadSize)
    IN  body \o [i \in 1..l |-> l]

addPadding(body) ==
    LET l == PadSize - (Len(body) % PadSize)
    IN  body \o [i \in 1..l |-> IF i = l THEN l ELSE 0]

(***************************************************************************)
(* EncryptWithPub.  The ephemeral scalar and the IV come from rand.Reader  *)
(* and are parameters here.                                                *)
(***************************************************************************)
\* EncryptWithPub after addPadding
SealPadded(pub, paddedIn, eph, iv) ==
    LET x == ScalarMult(pub, eph)
    IN  IF x = 0 THEN [out |-> <<>>, err |-> "failed to generate encryption key"]
        ELSE LET shared == Sum512(x)
                 enc == encryptCBC(paddedIn, iv, Slice(shared, 0, AESKeySize))
                 ephPub == Marshal(PublicKey(eph))
                 out == <<Len(ephPub) % 256>> \o ephPub \o iv \o enc.out
             IN  IF enc.err /= "none" THEN [out |-> <<>>, err |-> enc.err]
                 ELSE [out |-> out \o Hmac(Slice(shared, AESKeySize, hashSize), iv \o enc.out),
                       err |-> "none"]

EncryptWithPub(pub, input, eph, iv) == SealPadded(pub, addPadding(input), eph, iv)

(***************************************************************************)
(* DecryptWithPriv.  `ops` lists the stages the call went through, in      *)
(* order.                                                                  *)
(***************************************************************************)
DecFail(e, ops) == [out |-> <<>>, err |-> e, ops |-> ops, body |-> <<>>]

DecryptAuthenticated_DecryptFirst(shared, encdata) ==
    LET tagStart == Len(encdata) - hashSize
        mac == Hmac(Slice(shared, AESKeySize, hashSize), Slice(encdata, 0, tagStart))
        p == decryptCBC(Slice(encdata, BlockSize, tagStart),
                        Slice(encdata, 0, BlockSize),
                        Slice(shared, 0, AESKeySize))
    IN  IF p.err /= "none" THEN DecFail(p.err, <<"decryptCBC">>)
        ELSE IF ~hmacEqual(mac, Slice(encdata, tagStart, Len(encdata)))
        THEN DecFail("invalid MAC", <<"decryptCBC", "hmac">>)
        ELSE LET r == removePadding(p.out)
             IN  [out |-> r.out, err |-> r.err,
                  ops |-> <<"decryptCBC", "hmac", "removePadding">>,
                  body |-> p.out]

\* DecryptWithPriv from the shared secret on: MAC check, then CBC, then padding
DecryptAuthenticated(shared, encdata) ==
    LET tagStart == Len(encdata) - hashSize
        mac == Hmac(Slice(shared, AESKeySize, hashSize), Slice(encdata, 0, tagStart))
    IN  IF ~hmacEqual(mac, Slice(encdata, tagStart, Len(encdata)))
        THEN DecFail("invalid MAC", <<"hmac">>)
        ELSE LET p == decryptCBC(Slice(encdata, BlockSize, tagStart),
                                 Slice(encdata, 0, BlockSize),
                                 Slice(shared, 0, AESKeySize))
             IN  IF p.err /= "none" THEN DecFail(p.err, <<"hmac", "decryptCBC">>)
                 ELSE LET r == removePadding(p.out)
                      IN  [out |-> r.out, err |-> r.err,
                           ops |-> <<"hmac", "decryptCBC", "removePadding">>,
                           body |-> p.out]

DecryptWithPriv(d, cipher) ==
    IF Len(cipher) = 0 THEN DecFail("invalid ciphertext", <<>>)
    ELSE LET ephLen == cipher[1]
         IN  IF 1 + ephLen > Len(cipher) THEN DecFail("panic", <<>>)
             ELSE LET ephPub == Slice(cipher, 1, 1 + ephLen)
                      encdata == Slice(cipher, 1 + ephLen, Len(cipher))
                  IN  IF Len(encdata) < hashSize + BlockSize
                      THEN DecFail("invalid ciphertext", <<>>)
                      ELSE LET x == Unmarshal(ephPub)
                           IN  IF x = 0 THEN DecFail("invalid public key", <<>>)
                               ELSE LET x2 == ScalarMult(x, d)
                                    IN  IF x2 = 0
                                        THEN DecFail("failed to generate encryption key", <<>>)
                                        ELSE DecryptAuthenticated(Sum512(x2), encdata)


(***************************************************************************)
(* Symmetric envelope, pkg/crypto/encrypt.go.                              *)
(***************************************************************************)
\* pbkdf2.Key(password, keySalt, 200000, AESKeySize, hashNew)
pbkdf2Key(password, keySalt) ==
    [i \in 1..AESKeySize |->
        IF i % 2 = 1 THEN (SumSeq(password) + i) % 256 ELSE (SumSeq(keySalt) + i) % 256]

\* cipher.AEAD.Seal(nil, nonce, plaintext, nil): ciphertext || tag
gcmTag(key, nonce, ct) ==
    LET total == SumSeq(nonce) + SumSeq(ct)
    IN  [j \in 1..GCMTagSize |-> (key[j] + j + total) % 256]

gcmSeal(key, nonce, plaintext) ==
    IF Len(nonce) /= NonceSize THEN [out |-> <<>>, err |-> "panic"]
    ELSE LET ct == [i \in 1..Len(plaintext) |->
                       (plaintext[i] + key[((i - 1) % AESKeySize) + 1]
                        + nonce[((i - 1) % NonceSize) + 1]) % 256]
         IN  [out |-> ct \o gcmTag(key, nonce, ct), err |-> "none"]

\* cipher.AEAD.Open(nil, nonce, ciphertext, nil)
gcmOpen(key, nonce, ciphertext) ==
    IF Len(nonce) /= NonceSize THEN [out |-> <<>>, err |-> "panic"]
    ELSE IF Len(ciphertext) < GCMTagSize
    THEN [out |-> <<>>, err |-> "cipher: message authentication failed"]
    ELSE LET n == Len(ciphertext) - GCMTagSize
             ct == Slice(ciphertext, 0, n)
         IN  IF gcmTag(key, nonce, ct) /= Slice(ciphertext, n, Len(ciphertext))
             THEN [out |-> <<>>, err |-> "cipher: message authentication failed"]
             ELSE [out |-> [i \in 1..n |->
                              (ct[i] + 512 - key[((i - 1) % AESKeySize) + 1]
                               - nonce[((i - 1) % NonceSize) + 1]) % 256],
                   err |-> "none"]

\* DeriveCipher: the AEAD is represented by its key
DeriveCipher(password, keySalt) == pbkdf2Key(password, keySalt)

EncryptWithPhrase(phrase, salt, nonce, plaintext) ==
    gcmSeal(DeriveCipher(phrase, salt), nonce, plaintext)

DecryptWithPhrase_SwapArgs(phrase, salt, nonce, ciphertext) ==
    gcmOpen(DeriveCipher(salt, phrase), nonce, ciphertext)

DecryptWithPhrase(phrase, salt, nonce, ciphertext) ==
    gcmOpen(DeriveCipher(phrase, salt), nonce, ciphertext)

(***************************************************************************)
(* base58.Encode / base58.Decode (github.com/mr-tron/base58).  A text is   *)
(* the sequence of its digit values; a value of 58 or more stands for a    *)
(* character outside the alphabet.                                         *)
(***************************************************************************)
RECURSIVE LeadingZeros(_, _)
LeadingZeros(s, i) ==
    IF i > Len(s) \/ s[i] /= 0 THEN 0 ELSE 1 + LeadingZeros(s, i + 1)

\* one step of the long division of a big-endian number (digits in base
\* `from`) by `to`: st is <<quotient so far, remainder so far>>
DivStep(st, digit, from, to) ==
    LET cur == st[2] * from + digit
    IN  <<IF st[1] = <<>> /\ cur \div to = 0 THEN st[1] ELSE Append(st[1], cur \div to),
          cur % to>>

\* the steps for s[lo..hi], halving the range; the state after the first
\* half is computed once and handed to the second half
RECURSIVE DivRange(_, _, _, _, _, _)
DivRange(s, lo, hi, from, to, st) ==
    IF lo > hi THEN st
    ELSE IF lo = hi THEN DivStep(st, s[lo], from, to)
    ELSE LET mid == (lo + hi) \div 2
         IN  CHOOSE r \in {DivRange(s, mid + 1, hi, from, to, v) :
                             v \in {DivRange(s, lo, mid, from, to, st)}} : TRUE

\* one digit of the result: st is <<number left, digits found>>
ConvStep(st, from, to) ==
    IF st[1] = <<>> THEN st
    ELSE CHOOSE x \in {<<r[1], <<r[2]>> \o st[2]>> :
                         r \in {DivRange(st[1], 1, Len(st[1]), from, to, <<<<>>, 0>>)}} : TRUE

\* n steps, halving n
RECURSIVE ConvSteps(_, _, _, _)
ConvSteps(st, n, from, to) ==
    IF n = 0 THEN st
    ELSE IF n = 1 THEN ConvStep(st, from, to)
    ELSE CHOOSE x \in {ConvSteps(v, n - n \div 2, from, to) :
                         v \in {ConvSteps(st, n \div 2, from, to)}} : TRUE

\* the number s in base `to`, leading zeros dropped; it has at most
\* 2 * Len(s) digits for the bases 58 and 256
ConvertBase(s, from, to) ==
    CHOOSE x \in {ConvSteps(<<t, <<>>>>, 2 * Len(t), from, to)[2] :
                    t \in {SubSeq(b, LeadingZeros(b, 1) + 1, Len(b)) : b \in {s \o <<>>}}} : TRUE

base58Encode(bin) ==
    CHOOSE text \in {Fill(LeadingZeros(b, 1), 0) \o ConvertBase(b, 256, 58) :
                       b \in {bin \o <<>>}} : TRUE

base58Decode(str) ==
    CHOOSE r \in
        {IF Len(b) = 0 THEN [out |-> <<>>, err |-> "zero length string"]
         ELSE IF \E i \in 1..Len(b) : b[i] >= 58
         THEN [out |-> <<>>, err |-> "invalid base58 digit"]
         ELSE [out |-> Fill(LeadingZeros(b, 1), 0) \o ConvertBase(b, 58, 256), err |-> "none"] :
             b \in {str \o <<>>}} : TRUE


(***************************************************************************)
(* Inputs of the asymmetric envelope.                                      *)
(***************************************************************************)
MsgLens == {0, 1, 31, 32, 33, 320}
BodyLens == {16, 32}
BodyTails == {0, 1, 17, 32, 33, 255}
TamperBits == {0, 7}

\* a plaintext of n bytes whose last byte is 32 * f
Message(n, f) == [i \in 1..n |-> IF i = n THEN (32 * f) % 256 ELSE i % 5]

\* an unpadded body of n bytes whose last byte is t
Body(n, t) == [i \in 1..n |-> IF i = n THEN t ELSE 9]

Inputs ==
    {Message(n, f) : n \in MsgLens, f \in 0..MaxFill}
        \cup {Body(n, t) : n \in BodyLens, t \in BodyTails}

IV(k) == [i \in 1..IVSize |-> (k * 11 + i) % 256]

NoDec == [out |-> <<>>, err |-> "pending", ops |-> <<>>, body |-> <<>>]

HandlerIdle ==
    /\ mastePass = <<>> /\ confSalt = <<>> /\ fileSalt = <<>>
    /\ remoteKey = <<>> /\ cacheKey = <<>>
    /\ remoteMeta = <<>> /\ cacheMeta = <<>>
    /\ last = <<>>

CryptoIdle ==
    /\ priv = 0 /\ msg = <<>> /\ padded = <<>> /\ blob = <<>>
    /\ origin = "idle" /\ tamPos = 0 /\ dec = NoDec

PhraseIdle == phr = <<>>

ConcIdle == hs = <<>> /\ probe = <<>>

TabIdle == sheet = <<>> /\ tp = <<>> /\ upd = <<>> /\ rd = <<>> /\ wr = <<>>

MemIdle == mem = <<>>

JsonIdle == js = <<>>

ChainIdle == ch = <<>>

StoreIdle == TabIdle /\ MemIdle /\ JsonIdle /\ ChainIdle

ExtIdle == ConcIdle /\ StoreIdle

(***************************************************************************)
(* Specification of the asymmetric envelope: encrypt, damage, decrypt.     *)
(***************************************************************************)
CryptoInit ==
    /\ HandlerIdle
    /\ PhraseIdle
    /\ ExtIdle
    /\ priv \in 1..MaxPriv
    /\ msg \in Inputs
    /\ padded = <<>>
    /\ blob = <<>>
    /\ origin = "idle"
    /\ tamPos = 0
    /\ dec = NoDec

\* EncryptWithPub(&priv.PublicKey, msg)
Encrypt ==
    /\ origin = "idle"
    /\ \E eph \in 1..MaxEph, k \in 1..MaxIV :
           blob' = EncryptWithPub(PublicKey(priv), msg, eph, IV(k)).out
    /\ padded' = addPadding(msg)
    /\ origin' = "honest"
    /\ UNCHANGED <<priv, msg, tamPos, dec>>
    /\ UNCHANGED <<handlerVars, phr, extVars>>

\* a blob made by another holder of the public key: msg sealed as it is, unpadded
Forge ==
    /\ origin = "idle"
    /\ Len(msg) > 0
    /\ Len(msg) % BlockSize = 0
    /\ \E eph \in 1..MaxEph, k \in 1..MaxIV :
           blob' = SealPadded(PublicKey(priv), msg, eph, IV(k)).out
    /\ padded' = msg
    /\ origin' = "forged"
    /\ UNCHANGED <<priv, msg, tamPos, dec>>
    /\ UNCHANGED <<handlerVars, phr, extVars>>

\* ciphertext lengths CryptBlocks would not produce: no block, less than a
\* block, a block and a part
RaggedLens == {0, 1, 15, 17}

\* a blob made by another holder of the public key without encryptCBC: n bytes
\* of ciphertext after the IV, under the MAC of IV||ciphertext
ForgeRagged ==
    /\ origin = "idle"
    /\ \E eph \in 1..MaxEph, k \in 1..MaxIV, n \in RaggedLens :
           LET shared == Sum512(ScalarMult(PublicKey(priv), eph))
               ephPub == Marshal(PublicKey(eph))
               ct == Fill(n, 9)
           IN  blob' = <<Len(ephPub)>> \o ephPub \o IV(k) \o ct
                           \o Hmac(Slice(shared, AESKeySize, hashSize), IV(k) \o ct)
    /\ padded' = <<>>
    /\ origin' = "ragged"
    /\ UNCHANGED <<priv, msg, tamPos, dec>>
    /\ UNCHANGED <<handlerVars, phr, extVars>>

\* one bit of a stored blob is flipped
Tamper ==
    /\ origin = "honest"
    /\ dec = NoDec
    /\ Len(msg) <= MaxTamperLen
    /\ \E pos \in 1..Len(blob), k \in TamperBits :
           /\ blob' = FlipAt(blob, pos, k)
           /\ tamPos' = pos
    /\ origin' = "tampered"
    /\ UNCHANGED <<priv, msg, padded, dec>>
    /\ UNCHANGED <<handlerVars, phr, extVars>>

\* a stored blob loses its tail
Truncate ==
    /\ origin = "honest"
    /\ dec = NoDec
    /\ Len(msg) <= MaxTamperLen
    /\ \E n \in 0..(Len(blob) - 1) : blob' = Slice(blob, 0, n)
    /\ origin' = "truncated"
    /\ UNCHANGED <<priv, msg, padded, tamPos, dec>>
    /\ UNCHANGED <<handlerVars, phr, extVars>>

\* DecryptWithPriv(priv, blob)
Decrypt ==
    /\ origin /= "idle"
    /\ dec = NoDec
    /\ dec' = DecryptWithPriv(priv, blob)
    /\ UNCHANGED <<priv, msg, padded, blob, origin, tamPos>>
    /\ UNCHANGED <<handlerVars, phr, extVars>>

CryptoNext == Encrypt \/ Forge \/ ForgeRagged \/ Tamper \/ Truncate \/ Decrypt

SpecCrypto == CryptoInit /\ [][CryptoNext]_vars


(***************************************************************************)
(* pkg/handlers, pkg/config, pkg/tables: the master password, the salt     *)
(* and the wrapped key record.                                             *)
(***************************************************************************)
Pass(p) == <<p>>

Passwords == {Pass(p) : p \in 1..MaxPass}

\* crypto.MakeRandom(16) followed by base58.Encode
NewSalt(s) == base58Encode([i \in 1..IVSize |-> (s * 29 + i) % 256])

Nonce(n) == [i \in 1..NonceSize |-> (n * 5 + i) % 256]

\* x509.MarshalPKCS8PrivateKey
MarshalPKCS8(d) == <<48, d>>

WrapKey_NoNonce(phrase, salt, nonce, binPrivkey) ==
    base58Encode(EncryptWithPhrase(phrase, salt, nonce, binPrivkey).out)

\* the text setPass and ResetPass hand to SetKey
WrapKey(phrase, salt, nonce, binPrivkey) ==
    base58Encode(nonce \o EncryptWithPhrase(phrase, salt, nonce, binPrivkey).out)

NoMeta == [pass |-> <<>>, salt |-> <<>>, d |-> 0]

NoUnlock == [key |-> <<>>, ok |-> FALSE, err |-> "none"]

getPrivkeyAsBytes_Lenient(k, salt, masterPass) ==
    LET key == base58Decode(k)
    IN  IF key.err /= "none" \/ Len(key.out) < NonceSize THEN NoUnlock
        ELSE LET r == DecryptWithPhrase(masterPass, salt, Slice(key.out, 0, NonceSize),
                                        Slice(key.out, NonceSize, Len(key.out)))
             IN  IF r.err /= "none" THEN NoUnlock
                 ELSE [key |-> r.out, ok |-> TRUE, err |-> "none"]

\* a getPrivkeyAsBytes that names a record of another length than a sealed
\* key has as corrupted
getPrivkeyAsBytes_Heuristic(k, salt, masterPass) ==
    LET key == base58Decode(k)
    IN  IF key.err /= "none" THEN [key |-> <<>>, ok |-> FALSE, err |-> "base58 decode"]
        ELSE IF Len(key.out) < NonceSize
        THEN [key |-> <<>>, ok |-> FALSE, err |-> "invalid format"]
        ELSE LET r == DecryptWithPhrase(masterPass, salt, Slice(key.out, 0, NonceSize),
                                        Slice(key.out, NonceSize, Len(key.out)))
             IN  IF r.err /= "none"
                 THEN [key |-> <<>>, ok |-> FALSE,
                       err |-> IF Len(key.out) /= NonceSize + 2 + GCMTagSize
                               THEN "corrupted record" ELSE "decrypt with phrase"]
                 ELSE [key |-> r.out, ok |-> TRUE, err |-> "none"]

\* getPrivkeyAsBytes(tp, salt, masterPass) with k = tp.GetKey()
getPrivkeyAsBytes(k, salt, masterPass) ==
    LET key == base58Decode(k)
    IN  IF key.err /= "none" THEN [key |-> <<>>, ok |-> FALSE, err |-> "base58 decode"]
        ELSE IF Len(key.out) < NonceSize
        THEN [key |-> <<>>, ok |-> FALSE, err |-> "invalid format"]
        ELSE LET r == DecryptWithPhrase(masterPass, salt, Slice(key.out, 0, NonceSize),
                                        Slice(key.out, NonceSize, Len(key.out)))
             IN  IF r.err /= "none"
                 THEN [key |-> <<>>, ok |-> FALSE, err |-> "decrypt with phrase"]
                 ELSE [key |-> r.out, ok |-> TRUE, err |-> "none"]

NoLast ==
    [op |-> "none", text |-> <<>>, reply |-> "", unlock |-> NoUnlock,
     generated |-> FALSE, setKey |-> FALSE, saltPersisted |-> FALSE,
     keySeen |-> <<>>, metaSeen |-> NoMeta,
     passBefore |-> <<>>, saltBefore |-> <<>>, fileBefore |-> <<>>, storeBefore |-> <<>>]

\* what every handler records when it starts
Started(op, text) ==
    [NoLast EXCEPT !.op = op, !.text = text,
                   !.keySeen = cacheKey, !.metaSeen = cacheMeta,
                   !.passBefore = mastePass, !.saltBefore = confSalt,
                   !.fileBefore = fileSalt, !.storeBefore = remoteKey]

(***************************************************************************)
(* The values the handlers can meet within the bounds.  Each table holds   *)
(* the results of the operator it names, so that a result is computed once *)
(* and not once per step.                                                  *)
(***************************************************************************)
SaltTexts == {NewSalt(s) : s \in 1..MaxSalt}

KeyBins == {MarshalPKCS8(d) : d \in 1..MaxPriv}

WrapTable ==
    [pw \in Passwords, st \in SaltTexts, n \in 1..MaxNonce, bin \in KeyBins |->
        WrapKey(pw, st, Nonce(n), bin)]

KeyTexts ==
    {<<>>} \cup {WrapTable[pw, st, n, bin] :
                    pw \in Passwords, st \in SaltTexts, n \in 1..MaxNonce, bin \in KeyBins}

UnlockTable ==
    [k \in KeyTexts, st \in SaltTexts, pw \in Passwords |-> getPrivkeyAsBytes(k, st, pw)]

Init ==
    /\ CryptoIdle
    /\ PhraseIdle
    /\ ExtIdle
    /\ mastePass = <<>>
    /\ last = NoLast
    /\ \E st \in SaltTexts :
           /\ confSalt = st
           /\ fileSalt = st
           /\ \/ /\ remoteKey = <<>>
                 /\ remoteMeta = NoMeta
              \/ \E pw \in Passwords, d \in 1..MaxPriv, n \in 1..MaxNonce :
                     /\ remoteKey = WrapTable[pw, st, n, MarshalPKCS8(d)]
                     /\ remoteMeta = [pass |-> pw, salt |-> st, d |-> d]
    /\ cacheKey = remoteKey
    /\ cacheMeta = remoteMeta

\* Handler.setPass, reached through ControlMasterPassMiddleware while locked
SetPass ==
    /\ mastePass = <<>>
    /\ \E newMasterPass \in Passwords, d \in 1..MaxPriv, n \in 1..MaxNonce, setKeyOK \in BOOLEAN :
         LET r == UnlockTable[cacheKey, confSalt, newMasterPass]
             st == [Started("setPass", newMasterPass) EXCEPT !.unlock = r]
         IN  IF r.err /= "none"
             THEN /\ last' = [st EXCEPT !.reply = "setpass_unable_set"]
                  /\ UNCHANGED <<mastePass, remoteKey, remoteMeta>>
             ELSE IF ~r.ok
             THEN IF setKeyOK
                  THEN /\ remoteKey' = WrapTable[newMasterPass, confSalt, n, MarshalPKCS8(d)]
                       /\ remoteMeta' = [pass |-> newMasterPass, salt |-> confSalt, d |-> d]
                       /\ mastePass' = newMasterPass
                       /\ last' = [st EXCEPT !.reply = "setpass_pass_changed",
                                             !.generated = TRUE, !.setKey = TRUE]
                  ELSE /\ last' = [st EXCEPT !.reply = "setpass_unable_set",
                                             !.generated = TRUE, !.setKey = TRUE]
                       /\ UNCHANGED <<mastePass, remoteKey, remoteMeta>>
             ELSE /\ mastePass' = newMasterPass
                  /\ last' = [st EXCEPT !.reply = "setpass_pass_changed"]
                  /\ UNCHANGED <<remoteKey, remoteMeta>>
    /\ UNCHANGED <<confSalt, fileSalt, cacheKey, cacheMeta>>
    /\ UNCHANGED <<cryptoVars, phr, extVars>>

ResetPass_FreshKey ==
    /\ mastePass /= <<>>
    /\ \E data \in Passwords \cup {<<>>}, b \in SaltTexts, n \in 1..MaxNonce,
          fileOK \in BOOLEAN, setKeyOK \in BOOLEAN :
         LET r == UnlockTable[cacheKey, confSalt, mastePass]
             st == Started("ResetPass", data)
         IN  IF data = <<>>
             THEN /\ last' = [st EXCEPT !.reply = "setpass_empty_pass"]
                  /\ UNCHANGED <<mastePass, confSalt, fileSalt, remoteKey, remoteMeta>>
             ELSE IF r.err /= "none" \/ ~r.ok
             THEN /\ last' = [st EXCEPT !.reply = "setpass_unable_set", !.unlock = r]
                  /\ UNCHANGED <<mastePass, confSalt, fileSalt, remoteKey, remoteMeta>>
             ELSE IF ~fileOK
             THEN /\ last' = [st EXCEPT !.reply = "setpass_unable_set", !.unlock = r]
                  /\ UNCHANGED <<mastePass, confSalt, fileSalt, remoteKey, remoteMeta>>
             ELSE /\ confSalt' = b
                  /\ fileSalt' = b
                  /\ IF setKeyOK
                     THEN /\ remoteKey' = WrapTable[data, b, n, MarshalPKCS8((cacheMeta.d % MaxPriv) + 1)]
                          /\ remoteMeta' = [pass |-> data, salt |-> b, d |-> cacheMeta.d]
                          /\ mastePass' = data
                          /\ last' = [st EXCEPT !.reply = "setpasspass_setted", !.unlock = r,
                                                !.saltPersisted = TRUE, !.setKey = TRUE]
                     ELSE /\ last' = [st EXCEPT !.reply = "setpass_unable_set", !.unlock = r,
                                                !.saltPersisted = TRUE, !.setKey = TRUE]
                          /\ UNCHANGED <<mastePass, remoteKey, remoteMeta>>
    /\ UNCHANGED <<cacheKey, cacheMeta>>
    /\ UNCHANGED <<cryptoVars, phr, extVars>>

\* Handler.ResetPass, reached through ControlMasterPassMiddleware while unlocked
ResetPass ==
    /\ mastePass /= <<>>
    /\ \E data \in Passwords \cup {<<>>}, b \in SaltTexts, n \in 1..MaxNonce,
          fileOK \in BOOLEAN, setKeyOK \in BOOLEAN :
         LET r == UnlockTable[cacheKey, confSalt, mastePass]
             st == Started("ResetPass", data)
         IN  IF data = <<>>
             THEN /\ last' = [st EXCEPT !.reply = "setpass_empty_pass"]
                  /\ UNCHANGED <<mastePass, confSalt, fileSalt, remoteKey, remoteMeta>>
             ELSE IF r.err /= "none" \/ ~r.ok
             THEN /\ last' = [st EXCEPT !.reply = "setpass_unable_set", !.unlock = r]
                  /\ UNCHANGED <<mastePass, confSalt, fileSalt, remoteKey, remoteMeta>>
             ELSE IF ~fileOK
             THEN /\ last' = [st EXCEPT !.reply = "setpass_unable_set", !.unlock = r]
                  /\ UNCHANGED <<mastePass, confSalt, fileSalt, remoteKey, remoteMeta>>
             ELSE /\ confSalt' = b
                  /\ fileSalt' = b
                  /\ IF setKeyOK
                     THEN /\ remoteKey' = WrapTable[data, b, n, r.key]
                          /\ remoteMeta' = [pass |-> data, salt |-> b, d |-> cacheMeta.d]
                          /\ mastePass' = data
                          /\ last' = [st EXCEPT !.reply = "setpasspass_setted", !.unlock = r,
                                                !.saltPersisted = TRUE, !.setKey = TRUE]
                     ELSE /\ last' = [st EXCEPT !.reply = "setpass_unable_set", !.unlock = r,
                                                !.saltPersisted = TRUE, !.setKey = TRUE]
                          /\ UNCHANGED <<mastePass, remoteKey, remoteMeta>>
    /\ UNCHANGED <<cacheKey, cacheMeta>>
    /\ UNCHANGED <<cryptoVars, phr, extVars>>

\* TablesProvider.update, run by the refresh goroutine
Update ==
    /\ \E fetchOK \in BOOLEAN :
         IF fetchOK /\ remoteKey /= <<>>
         THEN /\ cacheKey' = remoteKey
              /\ cacheMeta' = remoteMeta
         ELSE UNCHANGED <<cacheKey, cacheMeta>>
    /\ UNCHANGED <<mastePass, confSalt, fileSalt, remoteKey, remoteMeta, last>>
    /\ UNCHANGED <<cryptoVars, phr, extVars>>

Next == SetPass \/ ResetPass \/ Update

Spec == Init /\ [][Next]_vars


(***************************************************************************)
(* Specification of the symmetric envelope: seal, then open with the same  *)
(* or with other credentials.                                              *)
(***************************************************************************)
PhrasePlains == KeyBins \cup {<<>>, Message(PadSize + 1, 1)}

PhraseInit ==
    /\ HandlerIdle
    /\ CryptoIdle
    /\ ExtIdle
    /\ \E pw \in Passwords \cup {<<>>}, st \in SaltTexts, n \in 1..MaxNonce, m \in PhrasePlains :
           phr = [stage |-> "input", phrase |-> pw, salt |-> st, nonce |-> Nonce(n),
                  plaintext |-> m, sealed |-> <<>>,
                  openPhrase |-> <<>>, openSalt |-> <<>>, openNonce |-> <<>>,
                  out |-> <<>>, err |-> "pending"]

\* crypto.EncryptWithPhrase(phrase, salt, nonce, plaintext)
PhraseSeal ==
    /\ phr.stage = "input"
    /\ phr' = [phr EXCEPT !.stage = "sealed",
                          !.sealed = EncryptWithPhrase(phr.phrase, phr.salt, phr.nonce,
                                                       phr.plaintext).out]
    /\ UNCHANGED <<handlerVars, cryptoVars, extVars>>

\* crypto.DecryptWithPhrase(phrase, salt, nonce, sealed)
PhraseOpen ==
    /\ phr.stage = "sealed"
    /\ \E pw \in Passwords \cup {<<>>}, st \in SaltTexts, n \in 1..MaxNonce :
         LET r == DecryptWithPhrase(pw, st, Nonce(n), phr.sealed)
         IN  phr' = [phr EXCEPT !.stage = "opened",
                                !.openPhrase = pw, !.openSalt = st, !.openNonce = Nonce(n),
                                !.out = r.out, !.err = r.err]
    /\ UNCHANGED <<handlerVars, cryptoVars, extVars>>

PhraseNext == PhraseSeal \/ PhraseOpen

SpecPhrase == PhraseInit /\ [][PhraseNext]_vars

(***************************************************************************)
(* Message handlers running concurrently.  The bot is created without      *)
(* Settings.Synchronous, so every incoming message runs its handler chain  *)
(* in a goroutine of its own; Handler has no lock around mastePass and     *)
(* Config.Salt.  Each goroutine handles one message, one statement group   *)
(* per step.  setPass and ResetPass call the five-argument                 *)
(* getPrivkeyAsBytes, which reports an empty key list as "not existed".    *)
(***************************************************************************)
Goroutines == 1..NumGoroutines

\* getPrivkeyAsBytes(b, tp, m, salt, masterPass) with k = the first of tp.GetKeys()
getPrivkeyAsBytesOlder(k, salt, masterPass) ==
    IF k = <<>> THEN NoUnlock ELSE UnlockTable[k, salt, masterPass]

\* x509.ParsePKCS8PrivateKey
ParsePKCS8(bin) ==
    IF Len(bin) = 2 /\ bin[1] = 48 /\ bin[2] \in 1..(CurveOrder - 1)
    THEN [d |-> bin[2], err |-> "none"]
    ELSE [d |-> 0, err |-> "parse pkcs8"]

\* getPrivkey(tp, salt, masterPass) with k = tp.GetKey()
getPrivkey(k, salt, masterPass) ==
    LET r == getPrivkeyAsBytes(k, salt, masterPass)
    IN  IF r.err /= "none" THEN [d |-> 0, err |-> r.err]
        ELSE IF ~r.ok THEN [d |-> 0, err |-> "missing key"]
        ELSE ParsePKCS8(r.key)

Idle ==
    [pc |-> "idle", op |-> "none", text |-> <<>>, key |-> <<>>, oldSalt |-> <<>>,
     salt |-> <<>>, rec |-> <<>>, d |-> 0, reply |-> ""]

\* the handler has returned; of its locals only what it generated is kept
Done(h, reply) ==
    [Idle EXCEPT !.pc = "done", !.op = h.op, !.reply = reply,
                 !.text = IF h.d /= 0 THEN h.text ELSE <<>>,
                 !.salt = IF h.d /= 0 THEN h.salt ELSE <<>>,
                 !.d = h.d]

InFlight ==
    {"sp_unlock", "sp_seal", "sp_setkey", "sp_store",
     "rp_unlock", "rp_salt", "rp_file", "rp_seal", "rp_setkey", "rp_store"}

GetPrivkeyTable ==
    [k \in KeyTexts, st \in SaltTexts, pw \in Passwords |-> getPrivkey(k, st, pw)]

ConcInit ==
    /\ CryptoIdle
    /\ PhraseIdle
    /\ last = NoLast
    /\ hs = [g \in Goroutines |-> Idle]
    /\ probe = <<>>
    /\ StoreIdle
    /\ \E st \in SaltTexts :
           /\ confSalt = st
           /\ fileSalt = st
           /\ \/ /\ remoteKey = <<>>
                 /\ remoteMeta = NoMeta
                 /\ mastePass = <<>>
              \/ \E pw \in Passwords, d \in 1..MaxPriv, n \in 1..MaxNonce :
                     /\ remoteKey = WrapTable[pw, st, n, MarshalPKCS8(d)]
                     /\ remoteMeta = [pass |-> pw, salt |-> st, d |-> d]
                     /\ mastePass \in {<<>>, pw}
    /\ cacheKey = remoteKey
    /\ cacheMeta = remoteMeta

\* ControlMasterPassMiddleware: a text message while locked goes to setPass,
\* "/setpass <data>" while unlocked goes to ResetPass
Dispatch(g) ==
    /\ hs[g].pc = "idle"
    /\ \E kind \in {"text", "/setpass"}, pw \in Passwords :
         LET h == [Idle EXCEPT !.op = kind, !.text = pw]
         IN  hs' = [hs EXCEPT ![g] =
                       IF kind = "text"
                       THEN IF mastePass /= <<>> THEN Done(h, "query")
                            ELSE [h EXCEPT !.pc = "sp_unlock"]
                       ELSE IF mastePass /= <<>> THEN [h EXCEPT !.pc = "rp_unlock"]
                            ELSE Done(h, "checkpass_please_enter_pass")]
    /\ UNCHANGED <<handlerVars, cryptoVars, phr, probe, storeVars>>

\* setPass: getPrivkeyAsBytes, and GeneratePrivKey when no record exists
SpUnlock(g) ==
    /\ hs[g].pc = "sp_unlock"
    /\ LET r == getPrivkeyAsBytesOlder(cacheKey, confSalt, hs[g].text)
       IN  IF r.err /= "none"
           THEN hs' = [hs EXCEPT ![g] = Done(@, "setpass_unable_set")]
           ELSE IF r.ok
           THEN hs' = [hs EXCEPT ![g].pc = "sp_store"]
           ELSE \E d \in 1..MaxPriv : hs' = [hs EXCEPT ![g].pc = "sp_seal", ![g].d = d]
    /\ UNCHANGED <<handlerVars, cryptoVars, phr, probe, storeVars>>

\* setPass: EncryptWithPhrase under Config.Salt, append(nonce, cypher...)
SpSeal(g) ==
    /\ hs[g].pc = "sp_seal"
    /\ \E n \in 1..MaxNonce :
           hs' = [hs EXCEPT ![g].pc = "sp_setkey", ![g].salt = confSalt,
                            ![g].rec = WrapTable[hs[g].text, confSalt, n, MarshalPKCS8(hs[g].d)]]
    /\ UNCHANGED <<handlerVars, cryptoVars, phr, probe, storeVars>>

\* setPass: TablesProvider.SetKey
SpSetKey(g) ==
    /\ hs[g].pc = "sp_setkey"
    /\ \E setKeyOK \in BOOLEAN :
         IF setKeyOK
         THEN /\ remoteKey' = hs[g].rec
              /\ remoteMeta' = [pass |-> hs[g].text, salt |-> hs[g].salt, d |-> hs[g].d]
              /\ hs' = [hs EXCEPT ![g].pc = "sp_store"]
         ELSE /\ hs' = [hs EXCEPT ![g] = Done(@, "setpass_unable_set")]
              /\ UNCHANGED <<remoteKey, remoteMeta>>
    /\ UNCHANGED <<mastePass, confSalt, fileSalt, cacheKey, cacheMeta, last>>
    /\ UNCHANGED <<cryptoVars, phr, probe, storeVars>>

\* setPass: h.mastePass = newMasterPass
SpStore(g) ==
    /\ hs[g].pc = "sp_store"
    /\ mastePass' = hs[g].text
    /\ hs' = [hs EXCEPT ![g] = Done(@, "setpass_pass_changed")]
    /\ UNCHANGED <<confSalt, fileSalt, remoteKey, cacheKey, remoteMeta, cacheMeta, last>>
    /\ UNCHANGED <<cryptoVars, phr, probe, storeVars>>

\* ResetPass: getPrivkeyAsBytes with Config.Salt and h.mastePass
RpUnlock(g) ==
    /\ hs[g].pc = "rp_unlock"
    /\ LET r == getPrivkeyAsBytesOlder(cacheKey, confSalt, mastePass)
       IN  IF r.err /= "none" \/ ~r.ok
           THEN hs' = [hs EXCEPT ![g] = Done(@, "setpass_unable_set")]
           ELSE hs' = [hs EXCEPT ![g].pc = "rp_salt", ![g].key = r.key]
    /\ UNCHANGED <<handlerVars, cryptoVars, phr, probe, storeVars>>

\* ResetPass: oldSalt := h.Config.Salt; h.Config.Salt = base58.Encode(b)
RpSalt(g) ==
    /\ hs[g].pc = "rp_salt"
    /\ \E b \in SaltTexts : confSalt' = b
    /\ hs' = [hs EXCEPT ![g].pc = "rp_file", ![g].oldSalt = confSalt]
    /\ UNCHANGED <<mastePass, fileSalt, remoteKey, cacheKey, remoteMeta, cacheMeta, last>>
    /\ UNCHANGED <<cryptoVars, phr, probe, storeVars>>

\* ResetPass: config.UpdateFile(h.Config), Config.Salt restored when it fails
RpFile(g) ==
    /\ hs[g].pc = "rp_file"
    /\ \E fileOK \in BOOLEAN :
         IF fileOK
         THEN /\ fileSalt' = confSalt
              /\ hs' = [hs EXCEPT ![g].pc = "rp_seal"]
              /\ UNCHANGED confSalt
         ELSE /\ confSalt' = hs[g].oldSalt
              /\ hs' = [hs EXCEPT ![g] = Done(@, "setpass_unable_set")]
              /\ UNCHANGED fileSalt
    /\ UNCHANGED <<mastePass, remoteKey, cacheKey, remoteMeta, cacheMeta, last>>
    /\ UNCHANGED <<cryptoVars, phr, probe, storeVars>>

\* a ResetPass that assigns h.mastePass when it has sealed the key, before
\* SetKey
RpSeal_AssignsPass(g) ==
    /\ hs[g].pc = "rp_seal"
    /\ \E n \in 1..MaxNonce :
           hs' = [hs EXCEPT ![g].pc = "rp_setkey", ![g].salt = confSalt,
                            ![g].rec = WrapTable[hs[g].text, confSalt, n, hs[g].key]]
    /\ mastePass' = hs[g].text
    /\ UNCHANGED <<confSalt, fileSalt, remoteKey, cacheKey, remoteMeta, cacheMeta, last>>
    /\ UNCHANGED <<cryptoVars, phr, probe, storeVars>>

\* ResetPass: EncryptWithPhrase(data, h.Config.Salt, nonce, privkeyBytes)
RpSeal(g) ==
    /\ hs[g].pc = "rp_seal"
    /\ \E n \in 1..MaxNonce :
           hs' = [hs EXCEPT ![g].pc = "rp_setkey", ![g].salt = confSalt,
                            ![g].rec = WrapTable[hs[g].text, confSalt, n, hs[g].key]]
    /\ UNCHANGED <<handlerVars, cryptoVars, phr, probe, storeVars>>

\* ResetPass: TablesProvider.SetKey
RpSetKey(g) ==
    /\ hs[g].pc = "rp_setkey"
    /\ \E setKeyOK \in BOOLEAN :
         IF setKeyOK
         THEN /\ remoteKey' = hs[g].rec
              /\ remoteMeta' = [pass |-> hs[g].text, salt |-> hs[g].salt,
                                d |-> ParsePKCS8(hs[g].key).d]
              /\ hs' = [hs EXCEPT ![g].pc = "rp_store"]
         ELSE /\ hs' = [hs EXCEPT ![g] = Done(@, "setpass_unable_set")]
              /\ UNCHANGED <<remoteKey, remoteMeta>>
    /\ UNCHANGED <<mastePass, confSalt, fileSalt, cacheKey, cacheMeta, last>>
    /\ UNCHANGED <<cryptoVars, phr, probe, storeVars>>

\* ResetPass: h.mastePass = data
RpStore(g) ==
    /\ hs[g].pc = "rp_store"
    /\ mastePass' = hs[g].text
    /\ hs' = [hs EXCEPT ![g] = Done(@, "setpasspass_setted")]
    /\ UNCHANGED <<confSalt, fileSalt, remoteKey, cacheKey, remoteMeta, cacheMeta, last>>
    /\ UNCHANGED <<cryptoVars, phr, probe, storeVars>>

\* TablesProvider.update run by the refresh goroutine between handler steps
Refresh ==
    /\ cacheKey /= remoteKey
    /\ cacheKey' = remoteKey
    /\ cacheMeta' = remoteMeta
    /\ UNCHANGED <<mastePass, confSalt, fileSalt, remoteKey, remoteMeta, last>>
    /\ UNCHANGED <<cryptoVars, phr, hs, probe, storeVars>>

\* getPrivkey(tp, h.Config.Salt, pw), as queryEncrypted and
\* querySetNewEncryptedSecret call it, once no handler is in flight
GetPrivkey ==
    /\ \A g \in Goroutines : hs[g].pc = "done"
    /\ probe = <<>>
    /\ cacheKey /= <<>>
    /\ \E pw \in Passwords :
           probe' = [pass |-> pw, salt |-> confSalt, key |-> cacheKey, meta |-> cacheMeta,
                     res |-> GetPrivkeyTable[cacheKey, confSalt, pw]]
    /\ UNCHANGED <<handlerVars, cryptoVars, phr, hs, storeVars>>

ConcNext ==
    \/ \E g \in Goroutines :
           \/ Dispatch(g)
           \/ SpUnlock(g) \/ SpSeal(g) \/ SpSetKey(g) \/ SpStore(g)
           \/ RpUnlock(g) \/ RpSalt(g) \/ RpFile(g) \/ RpSeal(g) \/ RpSetKey(g) \/ RpStore(g)
    \/ Refresh
    \/ GetPrivkey

SpecConc == ConcInit /\ [][ConcNext]_vars

(***************************************************************************)
(* Two runs of setPass on one sealed record: one with a wrong password,    *)
(* one with the right password after the stored record was changed.        *)
(***************************************************************************)
\* setPass: what it logs and replies for the result r of getPrivkeyAsBytes
setPassOutcome(r) ==
    IF r.err /= "none"
    THEN [err |-> r.err, ok |-> r.ok, key |-> r.key,
          logged |-> <<"Get private key: ", r.err>>, reply |-> "setpass_unable_set"]
    ELSE IF ~r.ok
    THEN [err |-> r.err, ok |-> r.ok, key |-> r.key,
          logged |-> <<"Generating new private key">>, reply |-> "setpass_pass_changed"]
    ELSE [err |-> r.err, ok |-> r.ok, key |-> r.key,
          logged |-> <<>>, reply |-> "setpass_pass_changed"]

NoRun == [err |-> "pending", ok |-> FALSE, key |-> <<>>, logged |-> <<>>, reply |-> ""]

\* a record sealed under pass and salt is in the store; the user knows pass
\* and may type another password
PairInit ==
    /\ HandlerIdle /\ CryptoIdle /\ PhraseIdle /\ StoreIdle
    /\ hs = <<>>
    /\ \E pw \in Passwords, wrong \in Passwords, st \in SaltTexts, n \in 1..MaxNonce,
          d \in 1..MaxPriv :
           /\ wrong /= pw
           /\ probe = [record |-> WrapTable[pw, st, n, MarshalPKCS8(d)],
                       pass |-> pw, wrong |-> wrong, salt |-> st,
                       cause |-> "none", changed |-> <<>>,
                       wrongRun |-> NoRun, changedRun |-> NoRun, rightRun |-> NoRun]

PairFrame == UNCHANGED <<handlerVars, cryptoVars, phr, hs, storeVars>>

\* the stored record is changed: one bit of the nonce or of the ciphertext is
\* flipped, or the record loses its tail (bytes of the ciphertext, or more)
RecordChanged ==
    /\ probe.cause = "none"
    /\ LET bin == base58Decode(probe.record).out
       IN  \/ \E pos \in 1..Len(bin), k \in TamperBits :
                  probe' = [probe EXCEPT !.cause = "flipped",
                                         !.changed = base58Encode(FlipAt(bin, pos, k))]
           \/ \E n \in 0..(Len(bin) - 1) :
                  probe' = [probe EXCEPT !.cause = IF n >= NonceSize THEN "cut" ELSE "cut short",
                                         !.changed = base58Encode(Slice(bin, 0, n))]
    /\ PairFrame

\* setPass with the wrong password on the record as it was sealed
RunWrongPassword ==
    /\ probe.wrongRun = NoRun
    /\ probe' = [probe EXCEPT !.wrongRun =
                     setPassOutcome(getPrivkeyAsBytes(probe.record, probe.salt, probe.wrong))]
    /\ PairFrame

\* setPass with the right password on the record as it was sealed
RunRightPassword ==
    /\ probe.rightRun = NoRun
    /\ probe' = [probe EXCEPT !.rightRun =
                     setPassOutcome(getPrivkeyAsBytes(probe.record, probe.salt, probe.pass))]
    /\ PairFrame

\* setPass with the right password on the changed record
RunChangedRecord ==
    /\ probe.cause /= "none"
    /\ probe.changedRun = NoRun
    /\ probe' = [probe EXCEPT !.changedRun =
                     setPassOutcome(getPrivkeyAsBytes(probe.changed, probe.salt, probe.pass))]
    /\ PairFrame

PairNext == RecordChanged \/ RunWrongPassword \/ RunRightPassword \/ RunChangedRecord

SpecPair == PairInit /\ [][PairNext]_vars

(***************************************************************************)
(* pkg/tables: the spreadsheet, the cache TablesProvider keeps of it, the  *)
(* refresh goroutine, a handler reading the cache and the write calls.     *)
(* A sheet row is the sequence of its cells; the Keys sheet is given as    *)
(* the grid the API returns: no row, a row without cells, or a row whose   *)
(* first cell holds the key text.                                          *)
(***************************************************************************)
SecretCells == 1..MaxCell

\* the row AddSecrets appends: Description, Username, Secret
Row(c) == <<c, c + 10, c + 20>>

\* a row a person left in the sheet with fewer than three cells
ShortRow == <<9>>

\* what a caller writes into a value it was handed
Plaintext == 99

KeyCells == {"k1", "k2"}

\* updateSecrets: rows of fewer than three cells are skipped
RECURSIVE updateSecrets(_)
updateSecrets(rows) ==
    IF rows = <<>> THEN <<>>
    ELSE LET row == Head(rows)
             rest == updateSecrets(Tail(rows))
         IN  IF Len(row) < 3 THEN rest
             ELSE <<[Description |-> row[1], Username |-> row[2], Secret |-> row[3]]>> \o rest

\* updateKey: setKey is called only when the first row has a first cell
updateKey(grid, key) ==
    IF Len(grid) = 0 THEN key
    ELSE IF Len(grid[1]) = 0 THEN key
    ELSE grid[1][1]

ReaderIdle == [pc |-> "idle", keyCycle |-> 0, secCycle |-> 0]

NoWrite == [op |-> "none", ok |-> FALSE]

TabInit ==
    /\ HandlerIdle
    /\ CryptoIdle
    /\ PhraseIdle
    /\ ConcIdle
    /\ \E rows \in {<<>>, <<Row(1)>>}, grid \in {<<>>, <<<<"k1">>>>} :
           /\ sheet = [rows |-> rows, keys |-> grid]
           /\ tp = [secrets |-> updateSecrets(rows), key |-> updateKey(grid, ""),
                    secCycle |-> 0, keyCycle |-> 0]
           /\ upd = [pc |-> "sleep", cycle |-> 0, outcome |-> "ok", snap |-> sheet, before |-> <<>>]
    /\ rd = ReaderIdle
    /\ wr = NoWrite
    /\ MemIdle
    /\ JsonIdle
    /\ ChainIdle

Fetch_ClearsOnError ==
    /\ upd.pc = "sleep"
    /\ upd.cycle < MaxCycles
    /\ \E fetchOK \in BOOLEAN :
         IF fetchOK
         THEN /\ upd' = [pc |-> "secrets", cycle |-> upd.cycle + 1, outcome |-> "",
                         snap |-> sheet, before |-> <<>>]
              /\ UNCHANGED tp
         ELSE /\ upd' = [upd EXCEPT !.cycle = upd.cycle + 1, !.outcome = "Unable update tables",
                                    !.before = tp]
              /\ tp' = [tp EXCEPT !.secrets = <<>>, !.key = ""]
    /\ UNCHANGED <<sheet, rd, wr>>
    /\ UNCHANGED <<handlerVars, cryptoVars, phr, concVars, mem, js, ch>>

\* update: Spreadsheets.Get; an error is returned to the loop, which logs it
Fetch ==
    /\ upd.pc = "sleep"
    /\ upd.cycle < MaxCycles
    /\ \E fetchOK \in BOOLEAN :
         IF fetchOK
         THEN upd' = [pc |-> "secrets", cycle |-> upd.cycle + 1, outcome |-> "",
                      snap |-> sheet, before |-> <<>>]
         ELSE upd' = [upd EXCEPT !.cycle = upd.cycle + 1, !.outcome = "Unable update tables",
                                 !.before = tp]
    /\ UNCHANGED <<sheet, tp, rd, wr>>
    /\ UNCHANGED <<handlerVars, cryptoVars, phr, concVars, mem, js, ch>>

\* update: case secretsTitle: updateSecrets, setSecrets
UpdSecrets ==
    /\ upd.pc = "secrets"
    /\ tp' = [tp EXCEPT !.secrets = updateSecrets(upd.snap.rows), !.secCycle = upd.cycle]
    /\ upd' = [upd EXCEPT !.pc = "key"]
    /\ UNCHANGED <<sheet, rd, wr>>
    /\ UNCHANGED <<handlerVars, cryptoVars, phr, concVars, mem, js, ch>>

\* update: case keysTitle: updateKey, setKey; return nil
UpdKey ==
    /\ upd.pc = "key"
    /\ tp' = [tp EXCEPT !.key = updateKey(upd.snap.keys, tp.key), !.keyCycle = upd.cycle]
    /\ upd' = [upd EXCEPT !.pc = "sleep", !.outcome = "ok"]
    /\ UNCHANGED <<sheet, rd, wr>>
    /\ UNCHANGED <<handlerVars, cryptoVars, phr, concVars, mem, js, ch>>

\* queryEncrypted: getPrivkey calls GetKey; rd keeps the cycle that set what
\* was read
ReadKey ==
    /\ rd.pc = "idle"
    /\ rd' = [rd EXCEPT !.pc = "key read", !.keyCycle = tp.keyCycle]
    /\ UNCHANGED <<sheet, tp, upd, wr>>
    /\ UNCHANGED <<handlerVars, cryptoVars, phr, concVars, mem, js, ch>>

\* queryEncrypted: GetSecrets
ReadSecrets ==
    /\ rd.pc = "key read"
    /\ rd' = [rd EXCEPT !.pc = "done", !.secCycle = tp.secCycle]
    /\ UNCHANGED <<sheet, tp, upd, wr>>
    /\ UNCHANGED <<handlerVars, cryptoVars, phr, concVars, mem, js, ch>>

AddSecrets_WriteThrough ==
    /\ Len(sheet.rows) < MaxRows
    /\ \E c \in SecretCells, ok \in BOOLEAN :
         /\ sheet' = IF ok THEN [sheet EXCEPT !.rows = Append(@, Row(c))] ELSE sheet
         /\ tp' = IF ok THEN [tp EXCEPT !.secrets = updateSecrets(<<Row(c)>>) \o @] ELSE tp
         /\ wr' = [op |-> "AddSecrets", ok |-> ok]
    /\ UNCHANGED <<upd, rd>>
    /\ UNCHANGED <<handlerVars, cryptoVars, phr, concVars, mem, js, ch>>

\* AddSecrets: Values.Append of one row of three cells
AddSecrets ==
    /\ Len(sheet.rows) < MaxRows
    /\ \E c \in SecretCells, ok \in BOOLEAN :
         /\ sheet' = IF ok THEN [sheet EXCEPT !.rows = Append(@, Row(c))] ELSE sheet
         /\ wr' = [op |-> "AddSecrets", ok |-> ok]
    /\ UNCHANGED <<tp, upd, rd>>
    /\ UNCHANGED <<handlerVars, cryptoVars, phr, concVars, mem, js, ch>>

\* DeleteSecrets(index): DeleteDimension of rows [index, index + 1)
DeleteSecrets ==
    /\ \E index \in 0..(MaxRows - 1), ok \in BOOLEAN :
         /\ sheet' = IF ok /\ index < Len(sheet.rows)
                     THEN [sheet EXCEPT !.rows = Slice(@, 0, index) \o Slice(@, index + 1, Len(@))]
                     ELSE sheet
         /\ wr' = [op |-> "DeleteSecrets", ok |-> ok]
    /\ UNCHANGED <<tp, upd, rd>>
    /\ UNCHANGED <<handlerVars, cryptoVars, phr, concVars, mem, js, ch>>

\* SetKey(key): Values.Update of the first cell of the Keys sheet
SetKey ==
    /\ \E k \in KeyCells, ok \in BOOLEAN :
         /\ sheet' = IF ok THEN [sheet EXCEPT !.keys = <<<<k>>>>] ELSE sheet
         /\ wr' = [op |-> "SetKey", ok |-> ok]
    /\ UNCHANGED <<tp, upd, rd>>
    /\ UNCHANGED <<handlerVars, cryptoVars, phr, concVars, mem, js, ch>>

\* the spreadsheet is edited outside the program: a short row is left in the
\* Secrets sheet, or the key cell is cleared
SheetEdited ==
    /\ \/ /\ Len(sheet.rows) < MaxRows
          /\ sheet' = [sheet EXCEPT !.rows = Append(@, ShortRow)]
       \/ \E grid \in {<<>>, <<<<>>>>} :
              /\ sheet.keys /= grid
              /\ sheet' = [sheet EXCEPT !.keys = grid]
    /\ UNCHANGED <<tp, upd, rd, wr>>
    /\ UNCHANGED <<handlerVars, cryptoVars, phr, concVars, mem, js, ch>>

TabNext ==
    \/ Fetch \/ UpdSecrets \/ UpdKey
    \/ ReadKey \/ ReadSecrets
    \/ AddSecrets \/ DeleteSecrets \/ SetKey
    \/ SheetEdited

SpecTables == TabInit /\ [][TabNext]_vars

(***************************************************************************)
(* NewTablesProvider: the calls of update.  The constructor calls update   *)
(* once and then starts the goroutine that sleeps and calls update for     *)
(* ever.  A thread is "main" (the constructor) or "loop" (the goroutine);  *)
(* upd.pc gives the position of each, upd.snap the spreadsheet its call of *)
(* Spreadsheets.Get returned.                                              *)
(***************************************************************************)
Threads == {"main", "loop"}

\* the thread is inside a call of update
InUpdate(t) == upd.pc[t] \in {"get", "secrets", "key"}

RemoteRows == {<<>>, <<ShortRow>>} \cup {<<Row(c)>> : c \in SecretCells}

RemoteGrids == {<<>>, <<<<>>>>} \cup {<<<<k>>>> : k \in KeyCells}

\* NewTablesProvider is called: the service is created, the remote answers
\* or does not
LoopInit ==
    /\ HandlerIdle /\ CryptoIdle /\ PhraseIdle /\ ConcIdle /\ MemIdle /\ JsonIdle /\ ChainIdle
    /\ rd = <<>> /\ wr = <<>>
    /\ \E rows \in RemoteRows, grid \in RemoteGrids, up \in BOOLEAN :
           sheet = [rows |-> rows, keys |-> grid, up |-> up]
    /\ tp = [secrets |-> <<>>, key |-> ""]
    /\ upd = [pc |-> [main |-> "create", loop |-> "none"],
              snap |-> [main |-> <<>>, loop |-> <<>>],
              initial |-> FALSE, logged |-> FALSE]

LoopFrame == UNCHANGED <<handlerVars, cryptoVars, phr, concVars, rd, wr, mem, js, ch>>

\* a constructor that starts the goroutine before its own call of update
CreateTables_GoFirst ==
    /\ upd.pc["main"] = "create"
    /\ upd' = IF sheet.up
              THEN [upd EXCEPT !.pc["main"] = "call", !.pc["loop"] = "sleep"]
              ELSE [upd EXCEPT !.pc["main"] = "failed"]
    /\ UNCHANGED <<sheet, tp>>
    /\ LoopFrame

\* NewTablesProvider: createTable for the two sheets; an error is returned
CreateTables ==
    /\ upd.pc["main"] = "create"
    /\ upd' = [upd EXCEPT !.pc["main"] = IF sheet.up THEN "call" ELSE "failed"]
    /\ UNCHANGED <<sheet, tp>>
    /\ LoopFrame

\* tableProvider.update() is called: by the constructor, or by the goroutine
\* when its sleep has ended
StartUpdate(t) ==
    /\ upd.pc[t] = IF t = "main" THEN "call" ELSE "wake"
    /\ upd' = [upd EXCEPT !.pc[t] = "get"]
    /\ UNCHANGED <<sheet, tp>>
    /\ LoopFrame

\* a goroutine that returns when update fails
GetSpreadsheet_LoopReturns(t) ==
    /\ upd.pc[t] = "get"
    /\ upd' = IF sheet.up
              THEN [upd EXCEPT !.pc[t] = "secrets", !.snap[t] = [rows |-> sheet.rows, keys |-> sheet.keys]]
              ELSE IF t = "main" THEN [upd EXCEPT !.pc[t] = "failed"]
              ELSE [upd EXCEPT !.pc[t] = "exited", !.logged = TRUE]
    /\ UNCHANGED <<sheet, tp>>
    /\ LoopFrame

\* update: Spreadsheets.Get returns.  Its error is returned by update: the
\* constructor returns it, the goroutine logs it and sleeps again
GetSpreadsheet(t) ==
    /\ upd.pc[t] = "get"
    /\ upd' = IF sheet.up
              THEN [upd EXCEPT !.pc[t] = "secrets", !.snap[t] = [rows |-> sheet.rows, keys |-> sheet.keys]]
              ELSE IF t = "main" THEN [upd EXCEPT !.pc[t] = "failed"]
              ELSE [upd EXCEPT !.pc[t] = "sleep", !.logged = TRUE]
    /\ UNCHANGED <<sheet, tp>>
    /\ LoopFrame

\* update: case secretsTitle
InstallSecrets(t) ==
    /\ upd.pc[t] = "secrets"
    /\ tp' = [tp EXCEPT !.secrets = updateSecrets(upd.snap[t].rows)]
    /\ upd' = [upd EXCEPT !.pc[t] = "key"]
    /\ UNCHANGED sheet
    /\ LoopFrame

\* update: case keysTitle, and return nil
InstallKey(t) ==
    /\ upd.pc[t] = "key"
    /\ tp' = [tp EXCEPT !.key = updateKey(upd.snap[t].keys, tp.key)]
    /\ upd' = [upd EXCEPT !.pc[t] = IF t = "main" THEN "go" ELSE "sleep",
                          !.snap[t] = <<>>,
                          !.initial = IF t = "main" THEN TRUE ELSE @]
    /\ UNCHANGED sheet
    /\ LoopFrame

\* NewTablesProvider: go func() { for { ... } }(), return tableProvider, nil
StartLoop ==
    /\ upd.pc["main"] = "go"
    /\ upd' = [upd EXCEPT !.pc["main"] = "returned",
                          !.pc["loop"] = IF @ = "none" THEN "sleep" ELSE @]
    /\ UNCHANGED <<sheet, tp>>
    /\ LoopFrame

\* time.Sleep(time.Second * updateTimeout) returns
SleepElapsed ==
    /\ upd.pc["loop"] = "sleep"
    /\ upd' = [upd EXCEPT !.pc["loop"] = "wake"]
    /\ UNCHANGED <<sheet, tp>>
    /\ LoopFrame

\* the spreadsheet is changed, by a handler of the bot or by a person
RemoteEdited ==
    /\ \E rows \in RemoteRows, grid \in RemoteGrids :
           /\ <<rows, grid>> /= <<sheet.rows, sheet.keys>>
           /\ sheet' = [sheet EXCEPT !.rows = rows, !.keys = grid]
    /\ UNCHANGED <<tp, upd>>
    /\ LoopFrame

\* the remote stops answering, or answers again
RemoteToggled ==
    /\ sheet' = [sheet EXCEPT !.up = ~@]
    /\ UNCHANGED <<tp, upd>>
    /\ LoopFrame

LoopNext ==
    \/ CreateTables
    \/ \E t \in Threads : StartUpdate(t) \/ GetSpreadsheet(t) \/ InstallSecrets(t) \/ InstallKey(t)
    \/ StartLoop
    \/ SleepElapsed
    \/ RemoteEdited
    \/ RemoteToggled

SpecLoop == LoopInit /\ [][LoopNext]_vars

\* time.Sleep returns, the call of the Sheets API returns (with a result or
\* an error), and the Go scheduler runs the goroutine: each step of the loop
\* that can be taken is taken
SpecLoopFair ==
    /\ SpecLoop
    /\ WF_vars(SleepElapsed)
    /\ \A t \in Threads :
           /\ WF_vars(StartUpdate(t))
           /\ WF_vars(GetSpreadsheet(t))
           /\ WF_vars(InstallSecrets(t))
           /\ WF_vars(InstallKey(t))
    /\ WF_vars(CreateTables)
    /\ WF_vars(StartLoop)

(***************************************************************************)
(* The slices the getters hand out.  A Go slice is a reference to a        *)
(* backing array; mem.heap maps an address to the array stored there.      *)
(* t.encrypted is a [][]string: an outer array whose elements are          *)
(* references to the arrays of the rows.  t.secrets is a []SecretsData:    *)
(* an array of struct values.  Address 0 is the nil slice.                 *)
(***************************************************************************)
MaxAddr == 5 * (MaxRows + 1)

Addrs == 1..MaxAddr

FreeCell == [live |-> FALSE, elems |-> <<>>]

free(heap) == {a \in Addrs : ~heap[a].live}

\* the k lowest free addresses, in order
RECURSIVE alloc(_, _)
alloc(heap, k) ==
    IF k = 0 THEN <<>>
    ELSE LET a == CHOOSE x \in free(heap) : \A y \in free(heap) : x <= y
         IN  <<a>> \o alloc([heap EXCEPT ![a].live = TRUE], k - 1)

\* make([]T, len(src)); copy(dst, src): a new array with the elements of src
makeCopy(heap, src) ==
    LET a == alloc(heap, 1)[1]
    IN  [heap |-> [heap EXCEPT ![a] = [live |-> TRUE,
                                      elems |-> IF src = 0 THEN <<>> ELSE heap[src].elems]],
         addr |-> a]

\* the rows a [][]string refers to
rowsOf(heap, outer) ==
    IF outer = 0 THEN <<>>
    ELSE [i \in 1..Len(heap[outer].elems) |-> heap[heap[outer].elems[i]].elems]

\* the structs a []SecretsData holds
secretsOf(heap, arr) == IF arr = 0 THEN <<>> ELSE heap[arr].elems

\* the garbage collector frees every array no slice refers to
collect(m) ==
    [m EXCEPT !.heap = [a \in Addrs |->
        IF \E o \in ({m.encrypted, m.heldRows} \ {0}) :
               \E i \in 1..Len(m.heap[o].elems) : m.heap[o].elems[i] = a
        THEN m.heap[a]
        ELSE IF a \in ({m.encrypted, m.heldRows, m.secrets, m.heldSecrets} \ {0})
        THEN m.heap[a]
        ELSE FreeCell]]

\* updateEncrypted: one array per row, the array of the rows (newrows), and
\* setEncrypted's make + copy of it
setEncrypted(m, rows) ==
    LET inner == alloc(m.heap, Len(rows))
        h1 == [a \in Addrs |->
                  IF \E i \in 1..Len(rows) : inner[i] = a
                  THEN [live |-> TRUE,
                        elems |-> rows[CHOOSE i \in 1..Len(rows) : inner[i] = a]]
                  ELSE m.heap[a]]
        newrows == alloc(h1, 1)[1]
        h2 == [h1 EXCEPT ![newrows] = [live |-> TRUE, elems |-> inner]]
        c == makeCopy(h2, newrows)
    IN  [m EXCEPT !.heap = c.heap, !.encrypted = c.addr, !.setRows = rows]

\* updateSecrets: the array of the structs (newrows), and setSecrets's make +
\* copy of it
setSecrets(m, rows) ==
    LET newrows == alloc(m.heap, 1)[1]
        h1 == [m.heap EXCEPT ![newrows] = [live |-> TRUE, elems |-> updateSecrets(rows)]]
        c == makeCopy(h1, newrows)
    IN  [m EXCEPT !.heap = c.heap, !.secrets = c.addr, !.setSecrets = updateSecrets(rows)]

\* GetEncrypted: rows = make([][]string, len(s.encrypted)); copy(rows, s.encrypted)
GetEncrypted(m) ==
    LET c == makeCopy(m.heap, m.encrypted)
    IN  [m EXCEPT !.heap = c.heap, !.heldRows = c.addr]

\* GetSecrets: secrets = make([]SecretsData, len(t.secrets)); copy(secrets, t.secrets)
GetSecrets(m) ==
    LET c == makeCopy(m.heap, m.secrets)
    IN  [m EXCEPT !.heap = c.heap, !.heldSecrets = c.addr]

RowValues == {<<>>} \cup {<<Row(c)>> : c \in SecretCells}

EmptyMem ==
    [heap |-> [a \in Addrs |-> FreeCell], encrypted |-> 0, secrets |-> 0, key |-> "",
     heldRows |-> 0, heldSecrets |-> 0, heldKey |-> "",
     setRows |-> <<>>, setSecrets |-> <<>>, setKey |-> ""]

MemInit ==
    /\ HandlerIdle
    /\ CryptoIdle
    /\ PhraseIdle
    /\ ConcIdle
    /\ TabIdle
    /\ JsonIdle
    /\ ChainIdle
    /\ mem = collect(setSecrets(collect(setEncrypted(EmptyMem, <<>>)), <<>>))

\* update: updateEncrypted / updateSecrets / updateKey with the fetched data
RefreshSlices ==
    /\ \E rows \in RowValues :
           mem' = collect([setSecrets(collect(setEncrypted(mem, rows)), rows)
                              EXCEPT !.key = "k1", !.setKey = "k1"])
    /\ UNCHANGED <<handlerVars, cryptoVars, phr, concVars, tabVars, js, ch>>

\* a handler calls GetEncrypted, GetSecrets and GetKey
CallGetters ==
    /\ mem' = collect([GetSecrets(collect(GetEncrypted(mem))) EXCEPT !.heldKey = mem.key])
    /\ UNCHANGED <<handlerVars, cryptoVars, phr, concVars, tabVars, js, ch>>

\* queryEncrypted: row[1] = string(decUsername); row[2] = string(decPassword)
CallerWritesCell ==
    /\ mem.heldRows /= 0
    /\ \E i \in 1..Len(mem.heap[mem.heldRows].elems) :
           mem' = [mem EXCEPT !.heap[mem.heap[mem.heldRows].elems[i]].elems[2] = Plaintext,
                              !.heap[mem.heap[mem.heldRows].elems[i]].elems[3] = Plaintext]
    /\ UNCHANGED <<handlerVars, cryptoVars, phr, concVars, tabVars, js, ch>>

\* the caller assigns another row to an element of the returned rows
CallerReplacesRow ==
    /\ mem.heldRows /= 0
    /\ \E i \in 1..Len(mem.heap[mem.heldRows].elems) :
         LET a == alloc(mem.heap, 1)[1]
         IN  mem' = collect([mem EXCEPT
                        !.heap[a] = [live |-> TRUE, elems |-> <<Plaintext, Plaintext, Plaintext>>],
                        !.heap[mem.heldRows].elems[i] = a])
    /\ UNCHANGED <<handlerVars, cryptoVars, phr, concVars, tabVars, js, ch>>

\* the caller assigns to a field of a returned SecretsData
CallerWritesField ==
    /\ mem.heldSecrets /= 0
    /\ \E i \in 1..Len(mem.heap[mem.heldSecrets].elems) :
           mem' = [mem EXCEPT !.heap[mem.heldSecrets].elems[i].Secret = Plaintext]
    /\ UNCHANGED <<handlerVars, cryptoVars, phr, concVars, tabVars, js, ch>>

\* the caller assigns to the string GetKey returned
CallerWritesKey ==
    /\ mem.heldKey /= "changed"
    /\ mem' = [mem EXCEPT !.heldKey = "changed"]
    /\ UNCHANGED <<handlerVars, cryptoVars, phr, concVars, tabVars, js, ch>>

MemNext ==
    \/ RefreshSlices
    \/ CallGetters
    \/ CallerWritesCell \/ CallerReplacesRow \/ CallerWritesField \/ CallerWritesKey

SpecSlices == MemInit /\ [][MemNext]_vars

(***************************************************************************)
(* pkg/providers: JSONStorage.  The whole store is one JSON file.  The     *)
(* writers (AddSecret) hold mx from their readFile to the end of their     *)
(* writeFile; GetSecrets and GetKey call readFile without taking mx.       *)
(* os.WriteFile opens the file with O_TRUNC and then writes the bytes, so  *)
(* between the two the file on disk is empty, and during the write it may  *)
(* hold a prefix of the new bytes.                                         *)
(***************************************************************************)
JsonData == {"a", "b"}

ZeroStorage == [Secrets |-> <<>>, Key |-> ""]

\* json.jsonMarshal(storage): the bytes of the file, as a sequence of tokens
jsonMarshal(storage) == <<"{", "[">> \o storage.Secrets \o <<"]", storage.Key, "}">>

\* whether the bytes read so far hold a whole JSON value
WholeValue(b) ==
    /\ Len(b) >= 5
    /\ b[1] = "{" /\ b[2] = "["
    /\ b[Len(b) - 2] = "]" /\ b[Len(b)] = "}"

\* json.NewDecoder(file).Decode(&storage) once the reads have ended with b:
\* no bytes at all is io.EOF, bytes that stop early is io.ErrUnexpectedEOF
Decode(b) ==
    IF b = <<>> THEN [storage |-> ZeroStorage, err |-> "EOF"]
    ELSE IF WholeValue(b)
         THEN [storage |-> [Secrets |-> SubSeq(b, 3, Len(b) - 3), Key |-> b[Len(b) - 1]],
               err |-> "nil"]
         ELSE [storage |-> ZeroStorage, err |-> "unexpected EOF"]

\* readFile: the error is dropped when it is io.EOF
readFile(b) ==
    LET d == Decode(b)
    IN  IF d.err = "EOF" THEN [storage |-> d.storage, err |-> "nil"] ELSE d

WriterIdle == [pc |-> "idle", storage |-> ZeroStorage, b |-> <<>>]

JsonReaderIdle == [pc |-> "idle", op |-> "none", buf |-> <<>>, seen |-> {}, calls |-> 0]

NoResult == [op |-> "none", secrets |-> <<>>, key |-> "", err |-> "none", seen |-> {}]

\* NewJSONStorage: the file is created empty, or is the one a previous run left
JsonInit ==
    /\ HandlerIdle /\ CryptoIdle /\ PhraseIdle /\ ConcIdle /\ TabIdle /\ MemIdle /\ ChainIdle
    /\ \E st \in {ZeroStorage, [Secrets |-> <<>>, Key |-> "k1"], [Secrets |-> <<"a">>, Key |-> "k1"]} :
          js = [file    |-> IF st = ZeroStorage THEN <<>> ELSE jsonMarshal(st),
                stored  |-> st,
                mx      |-> 0,
                appends |-> 0,
                w       |-> [g \in Goroutines |-> WriterIdle],
                r       |-> JsonReaderIdle,
                res     |-> NoResult]

JsonFrame == UNCHANGED <<handlerVars, cryptoVars, phr, concVars, tabVars, mem, ch>>

\* AddSecret: t.mx.Lock()
AddSecretLock(g) ==
    /\ js.w[g].pc = "idle"
    /\ js.mx = 0
    /\ js.appends < MaxAppends
    /\ js' = [js EXCEPT !.mx = g, !.appends = @ + 1, !.w[g].pc = "locked"]
    /\ JsonFrame

\* AddSecret: readFile, append, json.Marshal
AddSecretRead(g) ==
    /\ js.w[g].pc = "locked"
    /\ \E data \in JsonData :
          LET got == readFile(js.file)
              storage == [got.storage EXCEPT !.Secrets = Append(@, data)]
          IN  js' = [js EXCEPT !.w[g] =
                        IF got.err = "nil"
                        THEN [pc |-> "marshalled", storage |-> storage, b |-> jsonMarshal(storage)]
                        ELSE [WriterIdle EXCEPT !.pc = "failed"]]
    /\ JsonFrame

\* os.WriteFile: OpenFile(name, O_WRONLY|O_CREATE|O_TRUNC, perm)
WriteFileTruncate(g) ==
    /\ js.w[g].pc = "marshalled"
    /\ js' = [js EXCEPT !.file = <<>>, !.w[g].pc = "opened"]
    /\ JsonFrame

\* os.WriteFile: f.Write(data), in one or in several write calls; the last
\* one makes the new storage the stored state
WriteFileWrite(g) ==
    /\ js.w[g].pc = "opened"
    /\ \E n \in 1..(Len(js.w[g].b) - Len(js.file)) :
          LET file == js.file \o SubSeq(js.w[g].b, Len(js.file) + 1, Len(js.file) + n)
              whole == Len(file) = Len(js.w[g].b)
          IN  js' = [js EXCEPT
                  !.file = file,
                  !.stored = IF whole THEN js.w[g].storage ELSE @,
                  !.r.seen = IF whole /\ js.r.pc /= "idle" THEN @ \cup {js.w[g].storage} ELSE @,
                  !.w[g].pc = IF whole THEN "written" ELSE @]
    /\ JsonFrame

\* AddSecret: the deferred t.mx.Unlock()
AddSecretUnlock(g) ==
    /\ js.w[g].pc \in {"written", "failed"}
    /\ js' = [js EXCEPT !.mx = 0, !.w[g] = WriterIdle]
    /\ JsonFrame

\* GetSecrets / GetKey: readFile opens the file; mx is not taken
GetOpen ==
    /\ js.r.pc = "idle"
    /\ js.r.calls < MaxReads
    /\ \E op \in {"GetSecrets", "GetKey"} :
          js' = [js EXCEPT !.r = [pc |-> "reading", op |-> op, buf |-> <<>>,
                                  seen |-> {js.stored}, calls |-> js.r.calls + 1]]
    /\ JsonFrame

\* the value readFile returns to GetSecrets / GetKey, and what they return
GetReturn(b) ==
    LET got == readFile(b)
    IN  [js EXCEPT !.r = [JsonReaderIdle EXCEPT !.calls = js.r.calls],
                   !.res = [op      |-> js.r.op,
                            secrets |-> IF js.r.op = "GetSecrets" /\ got.err = "nil"
                                        THEN got.storage.Secrets ELSE <<>>,
                            key     |-> IF js.r.op = "GetKey" /\ got.err = "nil"
                                        THEN got.storage.Key ELSE "",
                            err     |-> got.err,
                            seen    |-> js.r.seen]]

\* Decode: one read of the file from the reader's offset; it returns once the
\* bytes hold a whole value or the read finds the end of the file
GetRead ==
    /\ js.r.pc = "reading"
    /\ LET more == SubSeq(js.file, Len(js.r.buf) + 1, Len(js.file))
           buf == js.r.buf \o more
       IN  js' = IF more = <<>> \/ WholeValue(buf)
                 THEN GetReturn(buf)
                 ELSE [js EXCEPT !.r.buf = buf]
    /\ JsonFrame

JsonNext ==
    \/ \E g \in Goroutines : AddSecretLock(g)
    \/ \E g \in Goroutines : AddSecretRead(g)
    \/ \E g \in Goroutines : WriteFileTruncate(g)
    \/ \E g \in Goroutines : WriteFileWrite(g)
    \/ \E g \in Goroutines : AddSecretUnlock(g)
    \/ GetOpen
    \/ GetRead

SpecJSON == JsonInit /\ [][JsonNext]_vars

(***************************************************************************)
(* JSONStorage.DeleteSecret, one call at a time (the writers hold mx).  The *)
(* index is the Go index, from 0.                                          *)
(***************************************************************************)
\* append(storage.Secrets[:index], storage.Secrets[index+1:]...): the records
\* behind index are copied one place down in the array of storage.Secrets
DeleteAt(secrets, index) ==
    [i \in 1..(Len(secrets) - 1) |-> IF i <= index THEN secrets[i] ELSE secrets[i + 1]]

\* what os.WriteFile can leave when it returns an error: the file as it was
\* (the open failed) or a part of the new bytes (a write failed)
FailedWrites(old, b) == {old} \cup {SubSeq(b, 1, n) : n \in 0..(Len(b) - 1)}

\* a DeleteSecret that fills the place of record index with the last record
DeleteSecret_SwapLast(file, index, left) ==
    LET got == readFile(file)
        n == Len(got.storage.Secrets)
        storage == [got.storage EXCEPT !.Secrets =
                       [i \in 1..(n - 1) |-> IF i = index + 1 THEN got.storage.Secrets[n]
                                                               ELSE got.storage.Secrets[i]]]
    IN  IF got.err /= "nil" THEN [file |-> file, err |-> "read file"]
        ELSE IF index < 0 \/ index >= n THEN [file |-> file, err |-> "nil"]
        ELSE IF left = <<"ok">> THEN [file |-> jsonMarshal(storage), err |-> "nil"]
        ELSE [file |-> left, err |-> "write file"]

\* a DeleteSecret that counts a negative index from the end
DeleteSecret_FromEnd(file, index, left) ==
    LET got == readFile(file)
        n == Len(got.storage.Secrets)
        at == IF index < 0 THEN n + index ELSE index
        storage == [got.storage EXCEPT !.Secrets = DeleteAt(@, at)]
    IN  IF got.err /= "nil" THEN [file |-> file, err |-> "read file"]
        ELSE IF at < 0 \/ at >= n THEN [file |-> file, err |-> "nil"]
        ELSE IF left = <<"ok">> THEN [file |-> jsonMarshal(storage), err |-> "nil"]
        ELSE [file |-> left, err |-> "write file"]

\* JSONStorage.DeleteSecret(index) on a file with the bytes `file`: the bytes
\* it leaves and the error it returns.  left is <<"ok">> when os.WriteFile
\* returns nil, and else the bytes the failed os.WriteFile leaves
DeleteSecret(file, index, left) ==
    LET got == readFile(file)
        storage == [got.storage EXCEPT !.Secrets = DeleteAt(@, index)]
    IN  IF got.err /= "nil" THEN [file |-> file, err |-> "read file"]
        ELSE IF index < 0 \/ index >= Len(got.storage.Secrets) THEN [file |-> file, err |-> "nil"]
        ELSE IF left = <<"ok">> THEN [file |-> jsonMarshal(storage), err |-> "nil"]
        ELSE [file |-> left, err |-> "write file"]

JsonKeys == {"", "k1"}

RECURSIVE SecretLists(_)
SecretLists(n) ==
    IF n = 0 THEN {<<>>}
    ELSE SecretLists(n - 1) \cup
         {Append(l, d) : l \in {m \in SecretLists(n - 1) : Len(m) = n - 1}, d \in JsonData}

\* NewJSONStorage: the file is created empty, or is the one a previous run left
DeleteInit ==
    /\ HandlerIdle /\ CryptoIdle /\ PhraseIdle /\ ConcIdle /\ TabIdle /\ MemIdle /\ ChainIdle
    /\ \E file \in {<<>>} \cup {jsonMarshal([Secrets |-> l, Key |-> k]) :
                                   l \in SecretLists(MaxSecrets), k \in JsonKeys} :
          js = [file |-> file, calls |-> 0, index |-> 0, before |-> file, err |-> "none"]

\* one call of DeleteSecret
CallDeleteSecret ==
    /\ js.calls < MaxDeletes
    /\ \E index \in (-2)..(MaxSecrets + 1) :
         \E left \in {<<"ok">>} \cup
                    FailedWrites(js.file, jsonMarshal([readFile(js.file).storage EXCEPT
                                                          !.Secrets = DeleteAt(@, index)])) :
            \E r \in {DeleteSecret(js.file, index, left)} :
                js' = [file |-> r.file, calls |-> js.calls + 1, index |-> index,
                       before |-> js.file, err |-> r.err]
    /\ JsonFrame

\* a crash during an earlier write has left a part of the file
FileCut ==
    /\ js.calls = 0
    /\ js.err = "none"
    /\ \E n \in 1..(Len(js.file) - 1) :
          js' = [js EXCEPT !.file = SubSeq(js.file, 1, n), !.before = SubSeq(js.file, 1, n),
                           !.err = "cut"]
    /\ JsonFrame

DeleteNext == CallDeleteSecret \/ FileCut

SpecDelete == DeleteInit /\ [][DeleteNext]_vars

(***************************************************************************)
(* pkg/handlers: the middleware chain of cmd/secretable.go around the      *)
(* handlers, one message at a time.  A string is the sequence of its       *)
(* bytes; the texts of base58.Encode are turned into strings through the   *)
(* alphabet.  The log, the rows handed to AppendEncrypted and the replies  *)
(* sent to the chat are recorded.                                          *)
(***************************************************************************)
\* the alphabet 123456789ABCDEFGHJKLMNPQRSTUVWXYZabcdefghijkmnopqrstuvwxyz
b58Char(d) ==
    IF d < 9 THEN 49 + d
    ELSE IF d < 17 THEN 65 + (d - 9)
    ELSE IF d < 22 THEN 74 + (d - 17)
    ELSE IF d < 33 THEN 80 + (d - 22)
    ELSE IF d < 44 THEN 97 + (d - 33)
    ELSE 109 + (d - 44)

\* the digit value of a character, 58 for a character outside the alphabet
b58Digit(c) == IF \E d \in 0..57 : b58Char(d) = c THEN CHOOSE d \in 0..57 : b58Char(d) = c ELSE 58

\* the string base58.Encode returns, from its digits
StringOf(text) == [i \in 1..Len(text) |-> b58Char(text[i])]

\* the digits base58.Decode reads from a string
DigitsOf(str) == [i \in 1..Len(str) |-> b58Digit(str[i])]

\* strings.Contains
Contains(s, sub) == \E i \in 0..(Len(s) - Len(sub)) : SubSeq(s, i + 1, i + Len(sub)) = sub

\* strings.ToLower, on ASCII
ToLower(s) == [i \in 1..Len(s) |-> IF s[i] \in 65..90 THEN s[i] + 32 ELSE s[i]]

\* strings.TrimSpace, on ASCII
TrimSpace(s) ==
    LET keep == {i \in 1..Len(s) : s[i] \notin {9, 10, 11, 12, 13, 32}}
    IN  IF keep = {} THEN <<>>
        ELSE SubSeq(s, CHOOSE i \in keep : \A j \in keep : i <= j,
                       CHOOSE i \in keep : \A j \in keep : i >= j)

\* strings.TrimPrefix
TrimPrefix(s, prefix) ==
    IF Len(s) >= Len(prefix) /\ SubSeq(s, 1, Len(prefix)) = prefix
    THEN SubSeq(s, Len(prefix) + 1, Len(s))
    ELSE s

\* strings.Split(s, "\n")
RECURSIVE Split(_)
Split(s) ==
    LET nl == {i \in 1..Len(s) : s[i] = 10}
    IN  IF nl = {} THEN <<s>>
        ELSE LET i == CHOOSE i \in nl : \A j \in nl : i <= j
             IN  <<SubSeq(s, 1, i - 1)>> \o Split(SubSeq(s, i + 1, Len(s)))

numbQueryColumns == 3

\* "/setpass" and "/add"
SetPassCmd == <<47, 115, 101, 116, 112, 97, 115, 115>>

AddCmd == <<47, 97, 100, 100>>

\* the three lines of a new secret: "D", "u", "s<c>"
Description == <<68>>

Username == <<117>>

SecretValue(c) == <<115, 48 + c>>

SecretText(c) == Description \o <<10>> \o Username \o <<10>> \o SecretValue(c)

\* a search for "d"
QueryText == <<100>>

\* the master password as the user types it, once followed by a space
PassTexts == Passwords \cup {Pass(1) \o <<32>>}

SetPassTexts == {SetPassCmd} \cup {SetPassCmd \o <<32>> \o pw : pw \in Passwords}

PlainFields == {Username} \cup {SecretValue(c) : c \in SecretCells}

\* base58.Encode(cypher) of querySetNewEncryptedSecret; the error of
\* EncryptWithPub is dropped, so a failed encryption gives the empty string.
\* The ephemeral scalar 0 is the key whose shared point is x == nil
SealTable ==
    [d \in 1..MaxPriv, f \in PlainFields, e \in 0..MaxEph, k \in 1..MaxIV |->
        StringOf(base58Encode(EncryptWithPub(PublicKey(d), f, e, IV(k)).out))]

CellTexts ==
    PlainFields \cup {SealTable[d, f, e, k] :
                         d \in 1..MaxPriv, f \in PlainFields, e \in 0..MaxEph, k \in 1..MaxIV}

\* queryEncrypted: base58.Decode (its error dropped), then DecryptWithPriv
OpenTable ==
    [d \in 1..MaxPriv, cell \in CellTexts |->
        LET r == DecryptWithPriv(d, base58Decode(DigitsOf(cell)).out)
        IN  [out |-> r.out, err |-> r.err]]

\* getPrivkey(b, tp, m, salt, masterPass) with k = the first of tp.GetKeys()
getPrivkeyOlder(k, salt, masterPass) ==
    LET r == getPrivkeyAsBytesOlder(k, salt, masterPass)
    IN  IF r.err /= "none" THEN [d |-> 0, err |-> r.err]
        ELSE IF ~r.ok THEN [d |-> 0, err |-> "missing private key"]
        ELSE ParsePKCS8(r.key)

LogLine(line, text) == [msg |-> line, text |-> text]

\* the state a message finds: the handler's slots, the remote record and the
\* record in the cache
Before ==
    [pass |-> mastePass, salt |-> confSalt, file |-> fileSalt, key |-> remoteKey,
     cached |-> cacheKey]

NoMsg ==
    [route |-> "none", text |-> <<>>, allowed |-> FALSE, replies |-> <<>>,
     unlock |-> "not called", calls |-> 0, passed |-> <<>>, shown |-> <<>>, panic |-> FALSE,
     before |-> [pass |-> <<>>, salt |-> <<>>, file |-> <<>>, key |-> <<>>, cached |-> <<>>]]

\* what a message leaves behind when its chain changes nothing and sends nothing
Keep ==
    [pass |-> mastePass, salt |-> confSalt, file |-> fileSalt, key |-> remoteKey,
     meta |-> remoteMeta, waitmp |-> ch.waitmp, setstate |-> ch.setstate,
     rows |-> ch.rows, cache |-> ch.cache, replies |-> <<>>, unlock |-> "not called",
     calls |-> 0, passed |-> <<>>, shown |-> <<>>, panic |-> FALSE, errors |-> {}]

\* Handler.setPass with m.Text = text
setPass(k, text, d, n, setKeyOK) ==
    LET newMasterPass == TrimSpace(text)
        r == getPrivkeyAsBytesOlder(cacheKey, confSalt, newMasterPass)
        u == [k EXCEPT !.unlock = r.err, !.calls = 1]
    IN  IF r.err /= "none"
        THEN [u EXCEPT !.replies = <<"setpass_unable_set">>,
                       !.errors = {LogLine("Get private key: ", <<>>)}]
        ELSE IF ~r.ok
        THEN IF setKeyOK
             THEN [u EXCEPT !.key = WrapTable[newMasterPass, confSalt, n, MarshalPKCS8(d)],
                            !.meta = [pass |-> newMasterPass, salt |-> confSalt, d |-> d],
                            !.pass = newMasterPass,
                            !.replies = <<"setpass_pass_changed">>,
                            !.errors = {LogLine("Generating new private key", <<>>)}]
             ELSE [u EXCEPT !.replies = <<"setpass_unable_set">>,
                            !.errors = {LogLine("Generating new private key", <<>>),
                                        LogLine("Store to table: ", <<>>)}]
        ELSE [u EXCEPT !.pass = newMasterPass, !.replies = <<"setpass_pass_changed">>]

\* a ResetPass that stores the new salt before it opens the record
resetPass_SaltFirst(k, text, b, n, fileOK, setKeyOK) ==
    LET data == TrimSpace(TrimPrefix(text, SetPassCmd))
        r == getPrivkeyAsBytesOlder(cacheKey, confSalt, mastePass)
        u == [k EXCEPT !.unlock = IF r.err = "none" /\ ~r.ok THEN "not existed" ELSE r.err,
                       !.calls = 1]
    IN  IF data = <<>> THEN [k EXCEPT !.replies = <<"setpass_empty_pass">>]
        ELSE IF r.err /= "none" \/ ~r.ok
        THEN [u EXCEPT !.salt = b, !.file = b, !.replies = <<"setpass_unable_set">>]
        ELSE IF ~fileOK
        THEN [u EXCEPT !.replies = <<"setpass_unable_set">>,
                       !.errors = {LogLine("Update config: ", <<>>)}]
        ELSE IF ~setKeyOK
        THEN [u EXCEPT !.salt = b, !.file = b, !.replies = <<"setpass_unable_set">>,
                       !.errors = {LogLine("Store encrypted key to table: ", <<>>)}]
        ELSE [u EXCEPT !.salt = b, !.file = b,
                       !.key = WrapTable[data, b, n, r.key],
                       !.meta = [pass |-> data, salt |-> b, d |-> ParsePKCS8(r.key).d],
                       !.pass = data,
                       !.replies = <<"setpasspass_setted">>]

\* Handler.ResetPass with m.Text = text
resetPass(k, text, b, n, fileOK, setKeyOK) ==
    LET data == TrimSpace(TrimPrefix(text, SetPassCmd))
        r == getPrivkeyAsBytesOlder(cacheKey, confSalt, mastePass)
        u == [k EXCEPT !.unlock = IF r.err = "none" /\ ~r.ok THEN "not existed" ELSE r.err,
                       !.calls = 1]
    IN  IF data = <<>> THEN [k EXCEPT !.replies = <<"setpass_empty_pass">>]
        ELSE IF r.err /= "none" \/ ~r.ok THEN [u EXCEPT !.replies = <<"setpass_unable_set">>]
        ELSE IF ~fileOK
        THEN [u EXCEPT !.replies = <<"setpass_unable_set">>,
                       !.errors = {LogLine("Update config: ", <<>>)}]
        ELSE IF ~setKeyOK
        THEN [u EXCEPT !.salt = b, !.file = b, !.replies = <<"setpass_unable_set">>,
                       !.errors = {LogLine("Store encrypted key to table: ", <<>>)}]
        ELSE [u EXCEPT !.salt = b, !.file = b,
                       !.key = WrapTable[data, b, n, r.key],
                       !.meta = [pass |-> data, salt |-> b, d |-> ParsePKCS8(r.key).d],
                       !.pass = data,
                       !.replies = <<"setpasspass_setted">>]

\* Handler.Set
set(k) == [k EXCEPT !.replies = <<"add_resp_command">>, !.setstate = TRUE]

\* a querySetNewEncryptedSecret that encrypts the secret but not the username
querySetNewEncryptedSecret_PlainUser(k, text, e1, e2, iv, appendOK) ==
    LET arr == Split(text)
        privkey == getPrivkeyOlder(cacheKey, confSalt, mastePass)
        row == <<arr[1], arr[2], SealTable[privkey.d, arr[3], e2, iv]>>
        u == [k EXCEPT !.unlock = privkey.err, !.calls = 1]
    IN  IF Len(arr) < numbQueryColumns THEN [k EXCEPT !.replies = <<"Need 3 lines">>]
        ELSE IF privkey.err /= "none" THEN u
        ELSE IF appendOK
        THEN [u EXCEPT !.passed = <<row>>, !.rows = Append(@, row),
                       !.replies = <<"New secret appened">>]
        ELSE [u EXCEPT !.passed = <<row>>,
                       !.replies = <<"Error of appending new encrypted">>,
                       !.errors = {LogLine("Unable to append new values to table: ", <<>>)}]

\* Handler.querySetNewEncryptedSecret with m.Text = text
querySetNewEncryptedSecret(k, text, e1, e2, iv, appendOK) ==
    LET arr == Split(text)
        privkey == getPrivkeyOlder(cacheKey, confSalt, mastePass)
        row == <<arr[1], SealTable[privkey.d, arr[2], e1, iv], SealTable[privkey.d, arr[3], e2, iv]>>
        u == [k EXCEPT !.unlock = privkey.err, !.calls = 1]
    IN  IF Len(arr) < numbQueryColumns THEN [k EXCEPT !.replies = <<"Need 3 lines">>]
        ELSE IF privkey.err /= "none" THEN u
        ELSE IF appendOK
        THEN [u EXCEPT !.passed = <<row>>, !.rows = Append(@, row),
                       !.replies = <<"New secret appened">>]
        ELSE [u EXCEPT !.passed = <<row>>,
                       !.replies = <<"Error of appending new encrypted">>,
                       !.errors = {LogLine("Unable to append new values to table: ", <<>>)}]

\* one pass of the loop of queryEncrypted, for row i of the rows GetEncrypted
\* returned: what the pass did, and the row it leaves
queryRow(row, q, d) ==
    IF Len(row) /= numbQueryColumns \/ ~Contains(ToLower(row[1]), q)
    THEN [did |-> "skip", row |-> row]
    ELSE CHOOSE pass \in
             {IF decUsername.err = "panic" THEN [did |-> "panic", row |-> row]
              ELSE IF decUsername.err /= "none" THEN [did |-> "username", row |-> row]
              ELSE IF decPassword.err = "panic" THEN [did |-> "panic", row |-> row]
              ELSE IF decPassword.err /= "none" THEN [did |-> "password", row |-> row]
              ELSE [did |-> "show", row |-> <<row[1], decUsername.out, decPassword.out>>] :
                  decUsername \in {OpenTable[d, row[2]]},
                  decPassword \in {OpenTable[d, row[3]]}} : TRUE

\* the passes over all rows, in order
RECURSIVE queryPasses(_, _, _, _)
queryPasses(rows, i, q, d) ==
    IF i > Len(rows) THEN <<>>
    ELSE <<queryRow(rows[i], q, d)>> \o queryPasses(rows, i + 1, q, d)

\* the loop of queryEncrypted: a panic ends the handler; the rows share
\* their cells with the cache, so row[1] and row[2] are assigned in the cache
QueryRows(u, q, d) ==
    CHOOSE v \in
        {LET ran == {i \in 1..Len(passes) : \A j \in 1..(i - 1) : passes[j].did /= "panic"}
             shown == {i \in ran : passes[i].did = "show"}
         IN  [u EXCEPT !.panic = \E i \in ran : passes[i].did = "panic",
                       !.cache = [i \in 1..Len(passes) |->
                                     IF i \in shown THEN passes[i].row ELSE u.cache[i]],
                       !.shown = SelectSeq([i \in 1..Len(passes) |->
                                               IF i \in shown THEN passes[i].row ELSE <<>>],
                                           LAMBDA r : r /= <<>>),
                       !.replies = [i \in 1..Cardinality(shown) |-> "query_response"],
                       !.errors = {LogLine("Decrypt username with private key: ", <<>>) :
                                      i \in {j \in ran : passes[j].did = "username"}}
                                  \cup {LogLine("Decrypt password with private key: ", <<>>) :
                                           i \in {j \in ran : passes[j].did = "password"}}] :
             passes \in {queryPasses(u.cache, 1, q, d)}} : TRUE

\* Handler.queryEncrypted with m.Text = text
queryEncrypted(k, text) ==
    CHOOSE o \in
        {IF privkey.err /= "none" THEN [k EXCEPT !.unlock = privkey.err, !.calls = 1]
         ELSE CHOOSE w \in
                  {IF v.panic \/ v.shown /= <<>> THEN v
                   ELSE [v EXCEPT !.replies = <<"query_no_secrets">>] :
                       v \in {QueryRows([k EXCEPT !.unlock = privkey.err, !.calls = 1],
                                        ToLower(text), privkey.d)}} : TRUE :
             privkey \in {getPrivkeyOlder(cacheKey, confSalt, mastePass)}} : TRUE

\* AccessMiddleware and ControlMasterPassMiddleware(true, isSetHandler, next):
\* the outcome when the chain stops before next, Keep when it goes on
Gate(allowed, isSetHandler) ==
    IF ~allowed THEN [Keep EXCEPT !.replies = <<"Access forbidden">>]
    ELSE IF mastePass /= <<>> THEN Keep
    ELSE IF ~isSetHandler \/ ~ch.waitmp
    THEN [Keep EXCEPT !.waitmp = TRUE, !.replies = <<"checkpass_please_enter_pass">>]
    ELSE [Keep EXCEPT !.waitmp = FALSE]

\* LoggerMiddleware, and the state the chain leaves
Deliver(route, text, allowed, o) ==
    /\ mastePass' = o.pass
    /\ confSalt' = o.salt
    /\ fileSalt' = o.file
    /\ remoteKey' = o.key
    /\ remoteMeta' = o.meta
    /\ ch' = [log      |-> ch.log \cup {LogLine("Message received: ", text)} \cup o.errors,
              waitmp   |-> o.waitmp,
              setstate |-> o.setstate,
              rows     |-> o.rows,
              cache    |-> o.cache,
              n        |-> ch.n + 1,
              msg      |-> [route |-> route, text |-> text, allowed |-> allowed,
                            replies |-> o.replies, unlock |-> o.unlock, calls |-> o.calls,
                            passed |-> o.passed, shown |-> o.shown, panic |-> o.panic,
                            before |-> Before]]
    /\ UNCHANGED <<cacheKey, cacheMeta, last>>
    /\ UNCHANGED <<cryptoVars, phr, concVars, tabVars, mem, js>>

\* the bot has just started, or has run for a while: no record is stored and
\* the bot is locked, or a record is stored and the bot is locked or unlocked
ChainInit ==
    /\ CryptoIdle /\ PhraseIdle /\ ConcIdle /\ TabIdle /\ MemIdle /\ JsonIdle
    /\ last = NoLast
    /\ \E st \in SaltTexts :
           /\ confSalt = st
           /\ fileSalt = st
           /\ \/ /\ remoteKey = <<>>
                 /\ remoteMeta = NoMeta
                 /\ mastePass = <<>>
              \/ \E pw \in Passwords, d \in 1..MaxPriv, n \in 1..MaxNonce :
                     /\ remoteKey = WrapTable[pw, st, n, MarshalPKCS8(d)]
                     /\ remoteMeta = [pass |-> pw, salt |-> st, d |-> d]
                     /\ mastePass \in {<<>>, pw}
    /\ cacheKey = remoteKey
    /\ cacheMeta = remoteMeta
    /\ \E rows \in {<<>>} \cup (IF remoteKey = <<>> THEN {}
                               ELSE {<<<<Description,
                                        SealTable[remoteMeta.d, Username, 1, 1],
                                        SealTable[remoteMeta.d, SecretValue(1), 1, 1]>>>>}) :
           ch = [log |-> {}, waitmp |-> FALSE, setstate |-> FALSE, rows |-> rows, cache |-> rows,
                 n |-> 0, msg |-> NoMsg]

\* bot.Handle(tb.OnText, middleware(true, true, true, ...Query)): a text that
\* is no command.  While locked the user sends a password; once unlocked,
\* a password, the three lines of a secret or a search; a chat without
\* access sends a search
OnText ==
    /\ ch.n < MaxMsgs
    /\ \E allowed \in BOOLEAN :
       \E text \in IF ~allowed THEN {QueryText}
                   ELSE IF mastePass = <<>> THEN PassTexts
                   ELSE PassTexts \cup {SecretText(c) : c \in SecretCells} \cup {QueryText} :
         \E g \in {Gate(allowed, TRUE)} :
             IF ~allowed \/ (mastePass = <<>> /\ ~ch.waitmp)
             THEN Deliver("text", text, allowed, g)
             ELSE IF mastePass = <<>>
             THEN \E d \in 1..MaxPriv, n \in 1..MaxNonce, setKeyOK \in BOOLEAN :
                      \E o \in {setPass(g, text, d, n, setKeyOK)} :
                          Deliver("text", text, allowed, o)
             ELSE IF ch.setstate
             THEN \E e1 \in 0..MaxEph, e2 \in 0..MaxEph, iv \in 1..MaxIV, appendOK \in BOOLEAN :
                      \E o \in {querySetNewEncryptedSecret([g EXCEPT !.setstate = FALSE], text,
                                    e1, e2, iv, appendOK /\ Len(ch.rows) < MaxRows)} :
                          Deliver("text", text, allowed, o)
             ELSE \E o \in {queryEncrypted([g EXCEPT !.setstate = FALSE], text)} :
                      Deliver("text", text, allowed, o)

\* bot.Handle("/setpass", middleware(true, false, true, ...ResetPass))
CmdSetPass ==
    /\ ch.n < MaxMsgs
    /\ \E allowed \in BOOLEAN, text \in SetPassTexts :
         \E g \in {Gate(allowed, FALSE)} :
             IF ~allowed \/ mastePass = <<>>
             THEN Deliver("/setpass", text, allowed, g)
             ELSE \E b \in SaltTexts, n \in 1..MaxNonce, fileOK \in BOOLEAN, setKeyOK \in BOOLEAN :
                      \E o \in {resetPass([g EXCEPT !.setstate = FALSE], text, b, n,
                                          fileOK, setKeyOK)} :
                          Deliver("/setpass", text, allowed, o)

\* bot.Handle("/add", middleware(true, false, true, ...Set))
CmdAdd ==
    /\ ch.n < MaxMsgs
    /\ \E allowed \in BOOLEAN :
         \E g \in {Gate(allowed, FALSE)} :
             \E o \in {IF ~allowed \/ mastePass = <<>> THEN g
                       ELSE set([g EXCEPT !.setstate = FALSE])} :
                 Deliver("/add", AddCmd, allowed, o)

\* TablesProvider.update of pkg/tables/tables.go, between two messages
ChainUpdate ==
    /\ cacheKey /= remoteKey \/ ch.cache /= ch.rows
    /\ cacheKey' = remoteKey
    /\ cacheMeta' = remoteMeta
    /\ ch' = [ch EXCEPT !.cache = ch.rows]
    /\ UNCHANGED <<mastePass, confSalt, fileSalt, remoteKey, remoteMeta, last>>
    /\ UNCHANGED <<cryptoVars, phr, concVars, tabVars, mem, js>>

ChainNext == OnText \/ CmdSetPass \/ CmdAdd \/ ChainUpdate

SpecChain == ChainInit /\ [][ChainNext]_vars

(***************************************************************************)
(* pkg/handlers with the plain and the encrypted sheet (handlers.go): the  *)
(* index a query shows and the index Delete hands to the store.            *)
(***************************************************************************)
MaxListed == 3

DeleteCmd == <<47, 100, 101, 108, 101, 116, 101>>

\* fmt.Sprintf("%d", n)
RECURSIVE Itoa(_)
Itoa(n) ==
    IF n < 0 THEN <<45>> \o Itoa(0 - n)
    ELSE IF n < 10 THEN <<48 + n>>
    ELSE Itoa(n \div 10) \o <<48 + (n % 10)>>

RECURSIVE DigitsValue(_)
DigitsValue(s) == IF s = <<>> THEN 0 ELSE 10 * DigitsValue(SubSeq(s, 1, Len(s) - 1)) + (s[Len(s)] - 48)

\* strconv.Atoi: an optional sign, then digits only
Atoi(s) ==
    LET signed == Len(s) > 0 /\ s[1] \in {43, 45}
        digits == IF signed THEN SubSeq(s, 2, Len(s)) ELSE s
    IN  IF digits = <<>> \/ \E i \in 1..Len(digits) : digits[i] \notin 48..57
        THEN [n |-> 0, err |-> "invalid syntax"]
        ELSE [n |-> IF signed /\ s[1] = 45 THEN 0 - DigitsValue(digits) ELSE DigitsValue(digits),
              err |-> "none"]

\* the description of the j-th secret: "D1", "D2", ...
Desc(j) == Description \o <<48 + j>>

\* the row of the j-th secret in the Secrets sheet and in the Encrypted sheet
PlainRow(j) == <<Desc(j), Username, SecretValue(1)>>

EncryptedRow(j, d) == <<Desc(j), SealTable[d, Username, 1, 1], SealTable[d, SecretValue(1), 1, 1]>>

\* makeQueryResponse(index, row), with the stored row the response was made from
Response(index, row, stored) == [index |-> Itoa(index), row |-> row, stored |-> stored]

\* Handler.query: the responses for the rows that match in one of the first
\* two cells
query(rows, q) ==
    LET match == {i \in 1..Len(rows) :
                     /\ Len(rows[i]) = numbQueryColumns
                     /\ \E c \in 1..2 : Contains(ToLower(rows[i][c]), q)}
    IN  SelectSeq([i \in 1..Len(rows) |->
                      IF i \in match THEN Response(i - 1, rows[i], rows[i]) ELSE <<>>],
                  LAMBDA r : r /= <<>>)

\* Handler.queryEncrypted: the responses makeQueryResponse(i+1, row) of the
\* passes that decrypt a row, up to a panic
queryEncryptedResponses(rows, q, d) ==
    CHOOSE v \in
        {LET ran == {i \in 1..Len(passes) : \A j \in 1..(i - 1) : passes[j].did /= "panic"}
         IN  SelectSeq([i \in 1..Len(passes) |->
                           IF i \in ran /\ passes[i].did = "show"
                           THEN Response(i, passes[i].row, rows[i]) ELSE <<>>],
                       LAMBDA r : r /= <<>>) :
             passes \in {queryPasses(rows, 1, q, d)}} : TRUE

\* the rows queryEncrypted leaves in the cache: the cells of a shown row are
\* assigned in the row the cache holds
queryEncryptedRows(rows, q, d) ==
    CHOOSE v \in
        {LET ran == {i \in 1..Len(passes) : \A j \in 1..(i - 1) : passes[j].did /= "panic"}
         IN  [i \in 1..Len(passes) |->
                 IF i \in ran /\ passes[i].did = "show" THEN passes[i].row ELSE rows[i]] :
             passes \in {queryPasses(rows, 1, q, d)}} : TRUE

\* TablesProvider.delete: DeleteDimension of the rows [index, index + 1); the
\* API refuses a negative start, and a row below the data is an empty row
DeleteDimension(rows, index) ==
    IF index < 0 THEN [rows |-> rows, removed |-> <<>>, err |-> "delete from table"]
    ELSE IF index >= Len(rows) THEN [rows |-> rows, removed |-> <<>>, err |-> "none"]
    ELSE [rows |-> SubSeq(rows, 1, index) \o SubSeq(rows, index + 2, Len(rows)),
          removed |-> rows[index + 1], err |-> "none"]

NoDelete ==
    [text |-> <<>>, reply |-> "none", removed |-> <<>>, listed |-> <<>>, changed |-> FALSE]

IndexFrame ==
    /\ UNCHANGED <<handlerVars, cryptoVars, phr, concVars, upd, mem, js, ch>>

\* NewHandler(b, tp, cleanupTime, enc) after NewTablesProvider: the sheet in
\* use holds up to MaxListed secrets and the cache is its copy
IndexInit ==
    /\ HandlerIdle /\ CryptoIdle /\ PhraseIdle /\ ConcIdle /\ MemIdle /\ JsonIdle /\ ChainIdle
    /\ upd = <<>>
    /\ \E encMode \in BOOLEAN, d \in 1..MaxPriv, n \in 0..MaxListed :
         /\ rd = [encMode |-> encMode, d |-> d, listing |-> <<>>, queried |-> FALSE,
                  changed |-> FALSE, next |-> n + 1]
         /\ sheet = [rows |-> [j \in 1..n |-> IF encMode THEN EncryptedRow(j, d) ELSE PlainRow(j)]]
    /\ tp = sheet
    /\ wr = NoDelete

\* Handler.Query with m.Text = "d"
IndexQuery ==
    /\ rd' = [rd EXCEPT !.listing = IF rd.encMode
                                    THEN queryEncryptedResponses(tp.rows, ToLower(QueryText), rd.d)
                                    ELSE query(tp.rows, ToLower(QueryText)),
                        !.queried = TRUE,
                        !.changed = FALSE]
    /\ tp' = IF rd.encMode
             THEN [rows |-> queryEncryptedRows(tp.rows, ToLower(QueryText), rd.d)]
             ELSE tp
    /\ UNCHANGED <<sheet, wr>>
    /\ IndexFrame

\* Handler.Delete with m.Text = text, on the rows of the sheet in use:
\* DeletEncrypted(index - 1) or DeletSecrets(index - 1)
Delete(rows, text, apiOK) ==
    LET index == Atoi(TrimSpace(TrimPrefix(text, DeleteCmd)))
        r == DeleteDimension(rows, index.n - 1)
    IN  IF index.err /= "none"
        THEN [rows |-> rows, removed |-> <<>>, reply |-> "delete_resp_wrong_index"]
        ELSE IF ~apiOK \/ r.err /= "none"
        THEN [rows |-> rows, removed |-> <<>>, reply |-> "delete_unable_delete"]
        ELSE [rows |-> r.rows, removed |-> r.removed, reply |-> "delete_secret_deleted"]

\* "/delete", "/delete x", and "/delete <index>" with an index of the last
\* listing or another small number
DeleteTexts ==
    {DeleteCmd, DeleteCmd \o <<32, 120>>}
        \cup {DeleteCmd \o <<32>> \o rd.listing[i].index : i \in 1..Len(rd.listing)}
        \cup {DeleteCmd \o <<32>> \o Itoa(n) : n \in 0..(MaxListed + 1)}

\* bot.Handle("/delete", ...Delete)
IndexDelete ==
    /\ \E text \in DeleteTexts, apiOK \in BOOLEAN :
         \E o \in {Delete(sheet.rows, text, apiOK)} :
             /\ sheet' = [rows |-> o.rows]
             /\ wr' = [text |-> text, reply |-> o.reply, removed |-> o.removed,
                       listed |-> rd.listing, changed |-> rd.changed \/ ~rd.queried]
             /\ rd' = [rd EXCEPT !.changed = @ \/ o.rows /= sheet.rows]
    /\ UNCHANGED tp
    /\ IndexFrame

\* AppendSecrets / AppendEncrypted of a new secret
IndexAppend ==
    /\ rd.next <= MaxListed
    /\ sheet' = [rows |-> Append(sheet.rows, IF rd.encMode THEN EncryptedRow(rd.next, rd.d)
                                                          ELSE PlainRow(rd.next))]
    /\ rd' = [rd EXCEPT !.changed = TRUE, !.next = @ + 1]
    /\ UNCHANGED <<tp, wr>>
    /\ IndexFrame

\* TablesProvider.update
IndexUpdate ==
    /\ tp /= sheet
    /\ tp' = sheet
    /\ UNCHANGED <<sheet, rd, wr>>
    /\ IndexFrame

IndexNext == IndexQuery \/ IndexDelete \/ IndexAppend \/ IndexUpdate

SpecIndex == IndexInit /\ [][IndexNext]_vars

(***************************************************************************)
(* cmd/secretable.go: the seven routes of setRouting, each behind the      *)
(* chain middleware() builds, with several chats.  waitmpstates and        *)
(* setstates are the sets of chat ids that have an entry.                  *)
(***************************************************************************)
NumChats == 3

RouteMsgs == 3

Chats == 1..NumChats

\* Config.AllowedList
AllowedList == {1, 2}

StartCmd == <<47, 115, 116, 97, 114, 116>>

IDCmd == <<47, 105, 100>>

GenerateCmd == <<47, 103, 101, 110, 101, 114, 97, 116, 101>>

\* Handler.hasAccess
hasAccess(c) == c \in AllowedList

\* what a message of chat c finds, and leaves when its chain changes nothing
KeepOf(c) ==
    [pass |-> mastePass, salt |-> confSalt, file |-> fileSalt, key |-> remoteKey,
     meta |-> remoteMeta, waitmp |-> c \in ch.waitmp, setstate |-> c \in ch.setstate,
     rows |-> ch.rows, cache |-> ch.cache, replies |-> <<>>, unlock |-> "not called",
     calls |-> 0, passed |-> <<>>, shown |-> <<>>, panic |-> FALSE, errors |-> {},
     ran |-> <<>>, stop |-> FALSE]

\* the random values and the outcomes of the calls to the sheet and the file
NoEnv ==
    [d |-> 1, n |-> 1, b |-> NewSalt(1), e1 |-> 1, e2 |-> 1, iv |-> 1,
     fileOK |-> TRUE, storeOK |-> TRUE]

Envs(route) ==
    IF route = "/delete" THEN {[NoEnv EXCEPT !.storeOK = ok] : ok \in BOOLEAN}
    ELSE IF route = "/setpass"
    THEN {[NoEnv EXCEPT !.b = NewSalt(2), !.fileOK = f, !.storeOK = ok] :
              f \in BOOLEAN, ok \in BOOLEAN}
    ELSE IF route = "text"
    THEN {[NoEnv EXCEPT !.e1 = e1, !.e2 = e2, !.storeOK = ok] :
              e1 \in 0..1, e2 \in 0..1, ok \in BOOLEAN}
    ELSE {NoEnv}

\* Handler.MakeStart, Handler.ID and Handler.Generate: one reply
reply(k, name, text) == [k EXCEPT !.ran = Append(@, name), !.replies = <<text>>]

\* Handler.Delete on the rows of the sheet
delete(k, text, apiOK) ==
    CHOOSE o \in {[k EXCEPT !.ran = Append(@, "Delete"), !.rows = r.rows,
                            !.replies = <<r.reply>>] :
                      r \in {Delete(k.rows, text, apiOK)}} : TRUE

\* a ControlSetSecretMiddleware that leaves the entry of the chat in setstates
ControlSetSecretMiddleware_KeepsFlag(isSetHandler, k, text, env) ==
    IF isSetHandler /\ k.setstate
    THEN querySetNewEncryptedSecret([k EXCEPT !.stop = TRUE,
                                              !.ran = Append(@, "querySetNewEncryptedSecret")],
                                    text, env.e1, env.e2, env.iv,
                                    env.storeOK /\ Len(k.rows) < MaxRows)
    ELSE [k EXCEPT !.setstate = FALSE]

\* Handler.ControlSetSecretMiddleware(isSetHandler, next); stop is set when
\* the closure returns without calling next
ControlSetSecretMiddleware(isSetHandler, k, text, env) ==
    LET ok == k.setstate
        k2 == [k EXCEPT !.setstate = FALSE]
    IN  IF isSetHandler /\ ok
        THEN querySetNewEncryptedSecret([k2 EXCEPT !.stop = TRUE,
                                                   !.ran = Append(@, "querySetNewEncryptedSecret")],
                                        text, env.e1, env.e2, env.iv,
                                        env.storeOK /\ Len(k.rows) < MaxRows)
        ELSE k2

\* Handler.setPass behind its hasAccess
guardedSetPass(c, k, text, env) ==
    IF ~hasAccess(c) THEN [k EXCEPT !.replies = <<"Access forbidden">>]
    ELSE setPass([k EXCEPT !.ran = Append(@, "setPass")], text, env.d, env.n, env.storeOK)

\* a ControlMasterPassMiddleware that asks for the password and calls next
ControlMasterPassMiddleware_AsksAndGoesOn(use, isSetHandler, c, k, text, env) ==
    IF mastePass /= <<>> THEN k
    ELSE IF ~use THEN [k EXCEPT !.waitmp = FALSE]
    ELSE IF ~isSetHandler \/ ~k.waitmp
    THEN [k EXCEPT !.waitmp = TRUE, !.replies = <<"checkpass_please_enter_pass">>]
    ELSE guardedSetPass(c, [k EXCEPT !.waitmp = FALSE, !.stop = TRUE], text, env)

\* a ControlMasterPassMiddleware that deletes the entry of the chat in
\* waitmpstates only behind the test of use
ControlMasterPassMiddleware_LateDelete(use, isSetHandler, c, k, text, env) ==
    IF mastePass /= <<>> \/ ~use THEN k
    ELSE IF ~isSetHandler \/ ~k.waitmp
    THEN [k EXCEPT !.waitmp = TRUE, !.stop = TRUE,
                   !.replies = <<"checkpass_please_enter_pass">>]
    ELSE guardedSetPass(c, [k EXCEPT !.waitmp = FALSE, !.stop = TRUE], text, env)

\* Handler.ControlMasterPassMiddleware(use, isSetHandler, next): the entry of
\* the chat in waitmpstates is loaded and deleted before use is tested
ControlMasterPassMiddleware(use, isSetHandler, c, k, text, env) ==
    IF mastePass /= <<>> THEN k
    ELSE IF ~use THEN [k EXCEPT !.waitmp = FALSE]
    ELSE IF ~isSetHandler \/ ~k.waitmp
    THEN [k EXCEPT !.waitmp = TRUE, !.stop = TRUE,
                   !.replies = <<"checkpass_please_enter_pass">>]
    ELSE guardedSetPass(c, [k EXCEPT !.waitmp = FALSE, !.stop = TRUE], text, env)

\* an AccessMiddleware that replies and calls next
AccessMiddleware_RepliesAndGoesOn(c, k) ==
    IF ~hasAccess(c) THEN [k EXCEPT !.replies = <<"Access forbidden">>]
    ELSE k

\* Handler.AccessMiddleware(next)
AccessMiddleware(c, k) ==
    IF ~hasAccess(c) THEN [k EXCEPT !.stop = TRUE, !.replies = <<"Access forbidden">>]
    ELSE k

\* middleware(useMasterPassCheck, isQuery, hasAccessControl, cleanupTime,
\* handler, next): the chain below LoggerMiddleware and
\* CleanupMessagesMiddleware, run for a message of chat c, up to the call of
\* the handler of the route. Each closure calls next as its last statement,
\* so the chain is the closures in order up to the first that returns
\* without calling next; stop tells that the handler is not called.
middleware(useMasterPassCheck, isQuery, hasAccessControl, c, text, env) ==
    CHOOSE s \in
        {IF m.stop THEN m ELSE ControlSetSecretMiddleware(isQuery, m, text, env) :
            m \in {IF a.stop THEN a
                   ELSE ControlMasterPassMiddleware(useMasterPassCheck, isQuery,
                                                    c, a, text, env) :
                a \in {IF hasAccessControl THEN AccessMiddleware(c, KeepOf(c))
                       ELSE KeepOf(c)}}} : TRUE

NoArrival ==
    [route |-> "none", chat |-> 0, replies |-> <<>>, ran |-> <<>>, passed |-> <<>>,
     panic |-> FALSE, locked |-> FALSE]

\* LoggerMiddleware, and the state the chain leaves; asked holds the chats
\* whose last message was answered with the request for the password
Arrive(route, c, text, o) ==
    /\ mastePass' = o.pass
    /\ confSalt' = o.salt
    /\ fileSalt' = o.file
    /\ remoteKey' = o.key
    /\ remoteMeta' = o.meta
    /\ ch' = [waitmp   |-> IF o.waitmp THEN ch.waitmp \cup {c} ELSE ch.waitmp \ {c},
              setstate |-> IF o.setstate THEN ch.setstate \cup {c} ELSE ch.setstate \ {c},
              rows     |-> o.rows,
              cache    |-> o.cache,
              asked    |-> IF o.replies = <<"checkpass_please_enter_pass">>
                           THEN ch.asked \cup {c} ELSE ch.asked \ {c},
              n        |-> ch.n + 1,
              msg      |-> [route |-> route, chat |-> c, replies |-> o.replies,
                            ran |-> o.ran, passed |-> o.passed, panic |-> o.panic,
                            locked |-> mastePass = <<>>]]
    /\ UNCHANGED <<cacheKey, cacheMeta, last>>
    /\ UNCHANGED <<cryptoVars, phr, concVars, tabVars, mem, js>>

\* the bot has just started, or has run for a while: no chat has an entry in
\* waitmpstates or setstates yet
RouteInit ==
    /\ CryptoIdle /\ PhraseIdle /\ ConcIdle /\ TabIdle /\ MemIdle /\ JsonIdle
    /\ last = NoLast
    /\ confSalt = NewSalt(1)
    /\ fileSalt = NewSalt(1)
    /\ \/ /\ remoteKey = <<>>
          /\ remoteMeta = NoMeta
          /\ mastePass = <<>>
       \/ /\ remoteKey = WrapTable[Pass(1), NewSalt(1), 1, MarshalPKCS8(1)]
          /\ remoteMeta = [pass |-> Pass(1), salt |-> NewSalt(1), d |-> 1]
          /\ mastePass \in {<<>>, Pass(1)}
    /\ cacheKey = remoteKey
    /\ cacheMeta = remoteMeta
    /\ \E rows \in {<<>>} \cup (IF remoteKey = <<>> THEN {}
                               ELSE {<<<<Description,
                                        SealTable[remoteMeta.d, Username, 1, 1],
                                        SealTable[remoteMeta.d, SecretValue(1), 1, 1]>>>>}) :
           ch = [waitmp |-> {}, setstate |-> {}, rows |-> rows, cache |-> rows,
                 asked |-> {}, n |-> 0, msg |-> NoArrival]

\* the texts a chat sends that are no command: a chat that has been asked for
\* the password sends a password; otherwise the three lines of a secret or a
\* search
PlainTexts(c) ==
    IF mastePass = <<>> /\ c \in ch.waitmp THEN Passwords
    ELSE {SecretText(1), QueryText}

\* bot.Handle("/start", middleware(false, false, false, 0, ...MakeStart))
OnStart ==
    /\ ch.n < RouteMsgs
    /\ \E c \in Chats :
         \E s \in {middleware(FALSE, FALSE, FALSE, c, StartCmd, NoEnv)} :
             \E o \in {IF s.stop THEN s
                       ELSE reply(s, "MakeStart", "start")} :
                 Arrive("/start", c, StartCmd, o)

\* bot.Handle("/id", middleware(false, false, false, ...ID))
OnID ==
    /\ ch.n < RouteMsgs
    /\ \E c \in Chats :
         \E s \in {middleware(FALSE, FALSE, FALSE, c, IDCmd, NoEnv)} :
             \E o \in {IF s.stop THEN s
                       ELSE reply(s, "ID", "id")} :
                 Arrive("/id", c, IDCmd, o)

\* bot.Handle("/generate", middleware(false, false, false, ...Generate))
OnGenerate ==
    /\ ch.n < RouteMsgs
    /\ \E c \in Chats :
         \E s \in {middleware(FALSE, FALSE, FALSE, c, GenerateCmd, NoEnv)} :
             \E o \in {IF s.stop THEN s
                       ELSE reply(s, "Generate", "generated")} :
                 Arrive("/generate", c, GenerateCmd, o)

\* bot.Handle("/add", middleware(true, false, true, ...Set))
OnAdd ==
    /\ ch.n < RouteMsgs
    /\ \E c \in Chats :
         \E s \in {middleware(TRUE, FALSE, TRUE, c, AddCmd, NoEnv)} :
             \E o \in {IF s.stop THEN s
                       ELSE set([s EXCEPT !.ran = Append(@, "Set")])} :
                 Arrive("/add", c, AddCmd, o)

\* bot.Handle("/setpass", middleware(true, false, true, ...ResetPass))
OnSetPass ==
    /\ ch.n < RouteMsgs
    /\ \E c \in Chats, text \in {SetPassCmd, SetPassCmd \o <<32>> \o Pass(2)} :
         \E env \in Envs("/setpass") :
            \E s \in {middleware(TRUE, FALSE, TRUE, c, text, env)} :
                \E o \in {IF s.stop THEN s
                          ELSE resetPass([s EXCEPT !.ran = Append(@, "ResetPass")],
                                         text, env.b, env.n, env.fileOK, env.storeOK)} :
                    Arrive("/setpass", c, text, o)

\* bot.Handle("/delete", middleware(true, false, true, ...Delete))
OnDelete ==
    /\ ch.n < RouteMsgs
    /\ \E c \in Chats, text \in {DeleteCmd, DeleteCmd \o <<32>> \o Itoa(1)} :
         \E env \in Envs("/delete") :
            \E s \in {middleware(TRUE, FALSE, TRUE, c, text, env)} :
                \E o \in {IF s.stop THEN s
                          ELSE delete(s, text, env.storeOK)} :
                    Arrive("/delete", c, text, o)

\* bot.Handle(tb.OnText, middleware(true, true, true, ...Query))
OnPlainText ==
    /\ ch.n < RouteMsgs
    /\ \E c \in Chats :
         \E text \in PlainTexts(c), env \in Envs("text") :
            \E s \in {middleware(TRUE, TRUE, TRUE, c, text, env)} :
                \E o \in {IF s.stop THEN s
                          ELSE queryEncrypted([s EXCEPT !.ran = Append(@, "Query")], text)} :
                    Arrive("text", c, text, o)

\* TablesProvider.update of pkg/tables/tables.go, between two messages
RouteUpdate ==
    /\ cacheKey /= remoteKey \/ ch.cache /= ch.rows
    /\ cacheKey' = remoteKey
    /\ cacheMeta' = remoteMeta
    /\ ch' = [ch EXCEPT !.cache = ch.rows]
    /\ UNCHANGED <<mastePass, confSalt, fileSalt, remoteKey, remoteMeta, last>>
    /\ UNCHANGED <<cryptoVars, phr, concVars, tabVars, mem, js>>

RouteNext ==
    \/ OnStart \/ OnID \/ OnGenerate
    \/ OnAdd \/ OnSetPass \/ OnDelete \/ OnPlainText
    \/ RouteUpdate

SpecRoute == RouteInit /\ [][RouteNext]_vars

\* the last message ran the handler or helper of this name
Ran(name) == \E i \in DOMAIN ch.msg.ran : ch.msg.ran[i] = name

(***************************************************************************)
(* Claims.                                                                 *)
(***************************************************************************)

\* C1: when ResetPass fails after it has persisted a new salt (sealing or SetKey
\* failed), the salt in memory and in the config file equals the salt before the
\* call, and the record in the store still opens with the password in the slot
\* and the current salt.
C1_SaltRolledBackOnFailure ==
    (last.op = "ResetPass" /\ last.saltPersisted /\ last.reply = "setpass_unable_set")
        => /\ confSalt = last.saltBefore
           /\ fileSalt = last.fileBefore
           /\ getPrivkeyAsBytes(remoteKey, confSalt, mastePass).ok

\* C2: DecryptWithPriv(priv, EncryptWithPub(pub, M)) returns exactly M with no
\* error, for every key pair and every plaintext M.
C2_RoundTrip ==
    (origin = "honest" /\ dec /= NoDec) => (dec.err = "none" /\ dec.out = msg)

C2_Witness ==
    /\ origin = "honest"
    /\ Len(msg) = 320
    /\ dec.err = "none"
    /\ dec.out = msg

\* whether the trailing MAC of cipher is the HMAC of what precedes it, under the
\* key agreed between d and the ephemeral key of cipher
MacMatches(d, cipher) ==
    LET ephLen == cipher[1]
        encdata == Slice(cipher, 1 + ephLen, Len(cipher))
        shared == Sum512(ScalarMult(Unmarshal(Slice(cipher, 1, 1 + ephLen)), d))
        tagStart == Len(encdata) - hashSize
    IN  Hmac(Slice(shared, AESKeySize, hashSize), Slice(encdata, 0, tagStart))
            = Slice(encdata, tagStart, Len(encdata))

\* the blob passes the checks DecryptWithPriv makes before it reaches the MAC
ReachesMac(cipher) ==
    /\ Len(cipher) > 0
    /\ 1 + cipher[1] <= Len(cipher)
    /\ Len(cipher) - 1 - cipher[1] >= hashSize + BlockSize
    /\ Unmarshal(Slice(cipher, 1, 1 + cipher[1])) /= 0

\* C3: in every execution of DecryptWithPriv, decryptCBC and removePadding run
\* only after the HMAC over IV||ciphertext has compared equal to the trailing
\* MAC; on a mismatch the call returns "invalid MAC" and no plaintext bytes.
C3_MacBeforeDecrypt ==
    dec /= NoDec =>
        /\ \A i \in DOMAIN dec.ops :
               dec.ops[i] \in {"decryptCBC", "removePadding"}
                   => /\ ReachesMac(blob)
                      /\ MacMatches(priv, blob)
                      /\ \E j \in 1..(i - 1) : dec.ops[j] = "hmac"
        /\ (ReachesMac(blob) /\ ~MacMatches(priv, blob))
               => (dec.err = "invalid MAC" /\ dec.out = <<>> /\ dec.body = <<>>)

C3_Witness ==
    /\ origin = "tampered"
    /\ ReachesMac(blob)
    /\ ~MacMatches(priv, blob)
    /\ dec.ops = <<"hmac">>
    /\ dec.err = "invalid MAC"

\* C4: for a blob made by EncryptWithPub, flipping one bit of the trailing MAC
\* makes DecryptWithPriv fail with "invalid MAC", and flipping one bit of the IV
\* or of the ciphertext makes it fail too, with no plaintext returned.
C4_TamperDetected ==
    (origin = "tampered" /\ dec /= NoDec) =>
        /\ (tamPos > Len(blob) - hashSize) => dec.err = "invalid MAC"
        /\ (tamPos > 1 + blob[1] /\ tamPos <= Len(blob) - hashSize)
               => (dec.err /= "none" /\ dec.out = <<>>)

C4_Witness ==
    /\ origin = "tampered"
    /\ tamPos = Len(blob)
    /\ dec.err = "invalid MAC"

\* C5: DecryptWithPriv returns "invalid ciphertext", and does not crash, when the
\* blob is empty or when fewer than hashSize + BlockSize bytes remain after the
\* length byte and the declared ephemeral-key bytes, blobs shorter than
\* 1 + declared length included.
C5_ShortBlobRejected ==
    (dec /= NoDec /\ (Len(blob) = 0 \/ Len(blob) - 1 - blob[1] < hashSize + BlockSize))
        => dec.err = "invalid ciphertext"

\* C6 as claimed: addPadding appends L = 32 - (len mod 32) bytes, 1 <= L <= 32,
\* and every appended byte has the value L.
C6_AllPaddingBytesEqualLength ==
    origin = "honest" =>
        LET L == Len(padded) - Len(msg)
        IN  /\ L = PadSize - (Len(msg) % PadSize)
            /\ L \in 1..PadSize
            /\ Slice(padded, 0, Len(msg)) = msg
            /\ \A i \in (Len(msg) + 1)..Len(padded) : padded[i] = L

\* C6 as amended: addPadding appends L = 32 - (len mod 32) bytes, 1 <= L <= 32;
\* the last appended byte has the value L and the appended bytes before it are 0.
C6_PaddingLastByteIsLength ==
    origin = "honest" =>
        LET L == Len(padded) - Len(msg)
        IN  /\ L = PadSize - (Len(msg) % PadSize)
            /\ L \in 1..PadSize
            /\ Slice(padded, 0, Len(msg)) = msg
            /\ padded[Len(padded)] = L
            /\ \A i \in (Len(msg) + 1)..(Len(padded) - 1) : padded[i] = 0

C6_Witness ==
    /\ origin = "honest"
    /\ Len(msg) = 33
    /\ Len(padded) = 2 * PadSize
    /\ padded[Len(padded)] = PadSize - 1
    /\ padded[Len(padded) - 1] = 0

\* C7: removePadding takes the last byte as the padding length and accepts it
\* only when it is in 1..32: 33 or more is rejected with "padding incorrect",
\* and 0 is not accepted.
C7_PaddingLengthValidated ==
    (dec /= NoDec /\ Len(dec.ops) = 3 /\ Len(dec.body) > 0) =>
        LET l == dec.body[Len(dec.body)]
        IN  /\ dec.err = "none" => l \in 1..PadSize
            /\ l > PadSize => dec.err = "padding incorrect"

\* C8: DecryptWithPhrase(P, S, n, EncryptWithPhrase(P, S, n, M)) returns M with
\* no error, for all passwords P, salts S, 12-byte nonces n and plaintexts M.
C8_PhraseRoundTrip ==
    (/\ phr.stage = "opened"
     /\ phr.openPhrase = phr.phrase
     /\ phr.openSalt = phr.salt
     /\ phr.openNonce = phr.nonce)
        => (phr.err = "none" /\ phr.out = phr.plaintext)

C8_Witness ==
    /\ phr.stage = "opened"
    /\ phr.openPhrase = phr.phrase
    /\ phr.openSalt = phr.salt
    /\ phr.openNonce = phr.nonce
    /\ Len(phr.nonce) = NonceSize
    /\ Len(phr.plaintext) > PadSize
    /\ phr.out = phr.plaintext

\* C9: when a wrapped key record exists, setPass with a password other than the
\* one that sealed it fails: getPrivkeyAsBytes returns no key, the
\* master-password slot stays as it was (locked), and neither key generation
\* nor SetKey happens.
C9_WrongPasswordRejected ==
    (last.op = "setPass" /\ last.keySeen /= <<>> /\ last.metaSeen.pass /= last.text)
        => /\ last.unlock.key = <<>>
           /\ ~last.unlock.ok
           /\ last.unlock.err /= "none"
           /\ last.reply = "setpass_unable_set"
           /\ mastePass = <<>>
           /\ ~last.generated
           /\ ~last.setKey
           /\ remoteKey = last.storeBefore

C9_Witness ==
    /\ last.op = "setPass"
    /\ last.keySeen /= <<>>
    /\ last.metaSeen.pass /= last.text
    /\ last.metaSeen.salt = last.saltBefore
    /\ last.unlock.err = "decrypt with phrase"
    /\ mastePass = <<>>

\* C10: when the key slot holds no wrapped key record, getPrivkeyAsBytes returns
\* existed = false with no key and no error, and setPass goes on to establish a
\* new key pair.
C10_AbsentKeyMeansNotExisted ==
    (last.op = "setPass" /\ last.keySeen = <<>>)
        => /\ last.unlock = NoUnlock
           /\ last.generated

\* a goroutine whose setPass generated a key pair, stored its record and returned
Established(g) ==
    /\ hs[g].pc = "done"
    /\ hs[g].d /= 0
    /\ hs[g].reply = "setpass_pass_changed"

\* C11: after setPass has established a key with password P and salt S (stored
\* base58(nonce || ciphertext) through SetKey) and the cache has refreshed,
\* getPrivkey with P and S succeeds and returns a private key whose public key
\* is the one establish generated, and getPrivkey with any other password fails.
C11_EstablishThenUnlock ==
    \A g \in Goroutines :
        (/\ probe /= <<>>
         /\ Established(g)
         /\ probe.meta = [pass |-> hs[g].text, salt |-> hs[g].salt, d |-> hs[g].d]
         /\ probe.salt = hs[g].salt)
            => IF probe.pass = hs[g].text
               THEN /\ probe.res.err = "none"
                    /\ PublicKey(probe.res.d) = PublicKey(hs[g].d)
               ELSE /\ probe.res.err /= "none"
                    /\ probe.res.d = 0

C11_Witness ==
    \E g \in Goroutines :
        /\ probe /= <<>>
        /\ Established(g)
        /\ probe.meta = [pass |-> hs[g].text, salt |-> hs[g].salt, d |-> hs[g].d]
        /\ probe.salt = hs[g].salt
        /\ probe.pass = hs[g].text
        /\ probe.key = cacheKey
        /\ probe.res.err = "none"
        /\ probe.res.d = hs[g].d

\* C12: after a successful ResetPass with new password P', the record in the key
\* slot opens under P' and the new salt to the private key that was active
\* before the call.
C12_ResetKeepsPrivateKey ==
    (last.op = "ResetPass" /\ last.reply = "setpasspass_setted")
        => LET r == UnlockTable[remoteKey, confSalt, mastePass]
           IN  /\ mastePass = last.text
               /\ r.err = "none"
               /\ r.ok
               /\ r.key = last.unlock.key
               /\ ParsePKCS8(r.key).d = last.metaSeen.d

C12_Witness ==
    /\ last.op = "ResetPass"
    /\ last.reply = "setpasspass_setted"
    /\ last.text /= last.passBefore
    /\ confSalt /= last.saltBefore
    /\ remoteKey /= last.storeBefore
    /\ UnlockTable[remoteKey, confSalt, mastePass].key = MarshalPKCS8(last.metaSeen.d)

\* C13: once a wrapped key record has been persisted to the store, no later or
\* concurrent setPass (establish) replaces it with a record that wraps a
\* different private key, under any interleaving of handlers and refreshes.
C13_OneKeyPair ==
    [][\A g \in Goroutines :
           (/\ hs[g].pc = "sp_setkey"
            /\ hs'[g].pc = "sp_store"
            /\ remoteKey /= <<>>)
               => remoteMeta'.d = remoteMeta.d]_vars

\* C14: setPass and ResetPass are serialized: no two handlers are between
\* their first read of the master-password slot, Config.Salt or the key and
\* their last write at the same time.
C14_Serialized ==
    \A g1, g2 \in Goroutines :
        (hs[g1].pc \in InFlight /\ hs[g2].pc \in InFlight) => g1 = g2

\* what an interleaving of two ResetPass calls can leave behind: both handlers
\* reported success and the stored record does not open with the password in
\* the slot and the current salt
C14_Corrupted ==
    /\ \A g \in Goroutines : hs[g].pc = "done" /\ hs[g].reply = "setpasspass_setted"
    /\ ~UnlockTable[remoteKey, confSalt, mastePass].ok

\* C15: when the fetch of a refresh fails, update leaves the cached records and
\* the cached key exactly as they were before the cycle; the failure is only
\* logged and the refresh loop goes on (it is back at its sleep).
C15_FetchFailureKeepsCache ==
    upd.outcome = "Unable update tables"
        => /\ tp = upd.before
           /\ upd.pc = "sleep"

C15_Witness ==
    /\ upd.outcome = "Unable update tables"
    /\ upd.pc = "sleep"
    /\ upd.cycle > 0
    /\ tp = upd.before
    /\ tp.secrets /= <<>>
    /\ tp.key /= ""
    /\ sheet /= upd.snap

\* C17: a refresh replaces the snapshot atomically: a reader that obtains the
\* wrapped key and the secret records while a refresh runs never holds a key
\* set by one refresh cycle together with records set by another.
C17_SnapshotAtomic ==
    rd.pc = "done" => rd.keyCycle = rd.secCycle

\* C19: AddSecrets, DeleteSecrets and SetKey act only on the remote sheet: the
\* step of a write call leaves the cache unchanged, and the cache changes only
\* in the steps of a refresh.
C19_WritesLeaveCache ==
    [][/\ (sheet' /= sheet \/ wr' /= wr) => tp' = tp
       /\ tp' /= tp => (upd.pc \in {"secrets", "key"} /\ upd' /= upd)]_vars

C19_Witness ==
    /\ wr.op = "AddSecrets"
    /\ wr.ok
    /\ Len(sheet.rows) > Len(tp.secrets)
    /\ sheet.rows[Len(sheet.rows)] = Row(1)
    /\ upd.snap /= sheet

\* cell j of a sheet row, 0 when the row has no such cell
Cell(row, j) == IF j <= Len(row) THEN row[j] ELSE 0

\* the content of the key slot, "" when the slot holds nothing
KeySlot(grid) == IF Len(grid) = 0 \/ Len(grid[1]) = 0 THEN "" ELSE grid[1][1]

\* C20: after a refresh that fetched successfully, with no write since the
\* fetch, the cache holds exactly the remote rows (same rows, same positions)
\* and the content of the remote key slot, also when the key slot has been
\* emptied or a remote row has fewer than three cells.
C20_CacheEqualsRemoteAfterRefresh ==
    (upd.pc = "sleep" /\ upd.outcome = "ok" /\ upd.cycle > 0 /\ upd.snap = sheet)
        => /\ tp.secrets = [i \in 1..Len(sheet.rows) |->
                               [Description |-> Cell(sheet.rows[i], 1),
                                Username |-> Cell(sheet.rows[i], 2),
                                Secret |-> Cell(sheet.rows[i], 3)]]
           /\ tp.key = KeySlot(sheet.keys)

\* C16: what GetSecrets / GetEncrypted / GetKey return is an independent copy:
\* whatever the caller does to the returned rows or to their fields, the cache
\* still holds, and a later get returns, what the last refresh set.
C16_GettersReturnIndependentCopy ==
    /\ rowsOf(mem.heap, mem.encrypted) = mem.setRows
    /\ secretsOf(mem.heap, mem.secrets) = mem.setSecrets
    /\ mem.key = mem.setKey

\* C18: while AddSecret runs concurrently with GetSecrets / GetKey, every
\* result a getter returns without an error is the collection, or the key, of
\* a state that was stored at some point of the call: never an emptied
\* collection after records existed, never a missing key after one was set.
C18_GetSeesStoredState ==
    js.res.err = "nil" =>
        \E st \in js.res.seen :
            IF js.res.op = "GetSecrets" THEN js.res.secrets = st.Secrets
                                        ELSE js.res.key = st.Key

\* the message went through the chain to the handler behind the master
\* password check
Handled(route) ==
    /\ ch.msg.route = route
    /\ ch.msg.allowed
    /\ ch.msg.before.pass /= <<>>

\* the message was a text that reached queryEncrypted or
\* querySetNewEncryptedSecret, and getPrivkey returned an error
UnlockFailed == Handled("text") /\ ch.msg.unlock \notin {"not called", "none"}

\* every string the bot has written: the lines of the log, the record and the
\* cells of the store, the salt of the configuration file
Written ==
    {l.text : l \in ch.log}
        \cup {StringOf(remoteKey), StringOf(fileSalt)}
        \cup {ch.rows[i][j] : i \in 1..Len(ch.rows), j \in 1..numbQueryColumns}

\* C21: the master password is never persisted: no value written to the
\* store, the configuration file or the log contains it.
C21_MasterPasswordNeverWritten ==
    mastePass /= <<>> => \A w \in Written : ~Contains(w, mastePass)

\* the private key getPrivkey returned to the handler of the last message
ActiveKey ==
    getPrivkeyOlder(ch.msg.before.cached, ch.msg.before.salt, ch.msg.before.pass)

IsBase58Text(str) == \A i \in 1..Len(str) : b58Digit(str[i]) < 58

\* C22: every row querySetNewEncryptedSecret passes to the store has the
\* description in plaintext, and a username cell and a secret cell that are
\* base58 texts of envelopes which the active private key opens to the
\* username and the secret the user sent; the plaintext of the two is never
\* passed.
C22_PassedRowsAreSealed ==
    \A i \in 1..Len(ch.msg.passed) :
        LET row == ch.msg.passed[i]
            arr == Split(ch.msg.text)
        IN  /\ Len(row) = numbQueryColumns
            /\ row[1] = arr[1]
            /\ ActiveKey.err = "none"
            /\ \A j \in 2..3 :
                   /\ row[j] /= arr[j]
                   /\ IsBase58Text(row[j])
                   /\ OpenTable[ActiveKey.d, row[j]] = [out |-> arr[j], err |-> "none"]

C22_Witness ==
    /\ Handled("text")
    /\ Len(ch.msg.passed) = 1
    /\ ch.msg.replies = <<"New secret appened">>
    /\ ch.rows[Len(ch.rows)] = ch.msg.passed[1]

\* C23: a failed unlock is a single attempt whose failure is reported: when
\* getPrivkey fails in queryEncrypted or querySetNewEncryptedSecret, it was
\* called once and the user receives a reply.
C23_FailedUnlockIsReported ==
    UnlockFailed => ch.msg.calls = 1 /\ ch.msg.replies /= <<>>

\* C24: ResetPass changes nothing unless it opened the record: when the new
\* password is empty, or the record does not open or does not exist, the salt
\* in memory and in the file, the stored record and the master password are
\* what they were.
C24_ResetPassNeedsUnlockedKey ==
    (/\ Handled("/setpass")
     /\ \/ TrimSpace(TrimPrefix(ch.msg.text, SetPassCmd)) = <<>>
        \/ ch.msg.unlock \notin {"not called", "none"})
        => /\ confSalt = ch.msg.before.salt
           /\ fileSalt = ch.msg.before.file
           /\ remoteKey = ch.msg.before.key
           /\ mastePass = ch.msg.before.pass

C24_Witness ==
    /\ Handled("/setpass")
    /\ ch.msg.unlock = "decrypt with phrase"
    /\ ch.msg.replies = <<"setpass_unable_set">>

\* the positions of ResetPass after config.UpdateFile has returned nil
SaltPersisted == {"rp_seal", "rp_setkey", "rp_store"}

\* C25: in a successful ResetPass the salt is persisted to the configuration
\* file before the record is persisted to the store, and h.mastePass is
\* assigned only after both.  For every step of a ResetPass: it reaches the
\* sealing only by the step that writes Config.Salt to the file; it writes
\* the record only from SetKey, which it reaches only after the sealing; it
\* assigns h.mastePass only after SetKey has returned nil; and it replies
\* setpasspass_setted only by that assignment.
C25_SaltThenRecordThenPass ==
    [][\A g \in Goroutines :
           (hs[g].op = "/setpass" /\ hs'[g] /= hs[g]) =>
               /\ hs'[g].pc = "rp_seal" =>
                      hs[g].pc = "rp_file" /\ fileSalt' = confSalt' /\ confSalt' = confSalt
               /\ fileSalt' /= fileSalt => hs[g].pc = "rp_file"
               /\ hs'[g].pc = "rp_setkey" => hs[g].pc = "rp_seal"
               /\ remoteKey' /= remoteKey =>
                      hs[g].pc = "rp_setkey" /\ hs'[g].pc = "rp_store" /\ remoteKey' = hs[g].rec
               /\ hs'[g].pc = "rp_store" => hs[g].pc = "rp_setkey"
               /\ mastePass' /= mastePass => hs[g].pc = "rp_store"
               /\ (hs'[g].pc = "done" /\ hs'[g].reply = "setpasspass_setted") =>
                      hs[g].pc = "rp_store" /\ mastePass' = hs[g].text]_vars

C25_Witness ==
    \E g \in Goroutines :
        /\ hs[g].op = "/setpass"
        /\ hs[g].pc = "done"
        /\ hs[g].reply = "setpasspass_setted"
        /\ mastePass /= <<>>
        /\ remoteMeta.salt = fileSalt

\* the records and the key a file holds
StoredIn(file) == readFile(file).storage

\* the last call had an index of a stored record
InRange == js.index >= 0 /\ js.index < Len(StoredIn(js.before).Secrets)

\* C29: DeleteSecret(i) with 0 <= i < n, when it returns nil, leaves the n - 1
\* other records in their order (the records before i where they were, the
\* records behind i one place down) and the key as it was.
C29_DeleteRemovesExactlyOne ==
    (js.calls > 0 /\ readFile(js.before).err = "nil" /\ InRange /\ js.err = "nil") =>
        LET old == StoredIn(js.before)
            new == StoredIn(js.file)
        IN  /\ readFile(js.file).err = "nil"
            /\ Len(new.Secrets) = Len(old.Secrets) - 1
            /\ \A i \in 1..Len(new.Secrets) :
                   new.Secrets[i] = IF i <= js.index THEN old.Secrets[i] ELSE old.Secrets[i + 1]
            /\ new.Key = old.Key

C29_Witness ==
    /\ js.calls > 0 /\ js.err = "nil" /\ InRange
    /\ js.index = 1
    /\ StoredIn(js.before).Secrets = <<"a", "b", "a">>
    /\ StoredIn(js.file).Secrets = <<"a", "a">>

\* C30: DeleteSecret with a negative index or an index >= n changes nothing
\* and returns nil.
C30_DeleteOutOfRangeIsNoop ==
    (js.calls > 0 /\ readFile(js.before).err = "nil" /\ ~InRange) =>
        js.file = js.before /\ js.err = "nil"

C30_Witness ==
    /\ js.calls > 0 /\ js.err = "nil"
    /\ js.index = -1
    /\ StoredIn(js.before).Secrets = <<"a", "b">>
    /\ js.file = js.before

\* C27: at most one refresh is in flight.  No two threads are inside update
\* at once; the goroutine exists only once the constructor's update has
\* returned nil; and the goroutine enters update only from the end of its
\* sleep, with no other call of update running.
C27_OneRefreshInFlight ==
    /\ [](Cardinality({t \in Threads : InUpdate(t)}) <= 1)
    /\ [](upd.pc["loop"] /= "none" => upd.initial /\ upd.pc["main"] \in {"go", "returned"})
    /\ [][(~InUpdate("loop") /\ InUpdate("loop")') =>
              /\ upd.pc["loop"] = "wake"
              /\ \A t \in Threads : ~InUpdate(t)]_vars
    /\ [][upd.pc["loop"]' = "wake" => upd.pc["loop"] \in {"sleep", "wake"}]_vars

C27_Witness ==
    /\ InUpdate("loop")
    /\ upd.logged
    /\ upd.pc["main"] = "returned"
    /\ tp.secrets /= <<>>

\* the cache holds what update installs from the spreadsheet
Installed ==
    /\ tp.secrets = updateSecrets(sheet.rows)
    /\ sheet.keys \in {<<<<k>>>> : k \in KeyCells} => tp.key = sheet.keys[1][1]

C32_DecryptIsTotal ==
    (dec /= NoDec /\ ReachesMac(blob) /\ MacMatches(priv, blob)) => dec.err /= "panic"

\* C34: answering a query leaves the cached snapshot as it was: a message whose
\* query showed rows does not change the rows the provider holds, and the cache
\* never holds a decrypted username or password.
C34_QueryLeavesCache ==
    /\ [][(ch'.n = ch.n + 1 /\ ch'.msg.shown /= <<>>) => ch'.cache = ch.cache]_vars
    /\ [](\A i \in DOMAIN ch.cache :
              ch.cache[i][2] \notin PlainFields /\ ch.cache[i][3] \notin PlainFields)

\* C33: whenever the master-password slot is not empty, getPrivkey with the
\* password in the slot and the current salt opens the record the cache returns;
\* so a query right after a successful setPass or ResetPass, before the next
\* refresh, recovers the private key.
C33_SlotOpensCachedKey ==
    mastePass /= <<>> => getPrivkeyOlder(cacheKey, confSalt, mastePass).err = "none"

\* the response of the last listing that showed the index the user typed
Listed(text) == {i \in 1..Len(wr.listed) : DeleteCmd \o <<32>> \o wr.listed[i].index = text}

\* C31: with no change to the store since the listing, "/delete <index>" with
\* the index a query response showed for a secret removes that secret's row.
C31_ShownIndexDeletesThatSecret ==
    (/\ wr.reply = "delete_secret_deleted"
     /\ ~wr.changed
     /\ Listed(wr.text) /= {})
        => \A i \in Listed(wr.text) : wr.removed = wr.listed[i].stored

\* C35: when EncryptWithPub fails for the username or for the secret,
\* querySetNewEncryptedSecret hands no row to AppendEncrypted and tells the
\* user that the add failed: no row handed to the store, and no row of the
\* sheet, has an empty second or third field.
C35_FailedEncryptionStoresNothing ==
    /\ \A i \in DOMAIN ch.msg.passed :
           ch.msg.passed[i][2] /= <<>> /\ ch.msg.passed[i][3] /= <<>>
    /\ \A i \in DOMAIN ch.rows : ch.rows[i][2] /= <<>> /\ ch.rows[i][3] /= <<>>

\* the routes setRouting binds with useMasterPassCheck and hasAccessControl
GuardedRoutes == {"/add", "/setpass", "/delete", "text"}

\* C36: while mastePass is empty no message runs Set, ResetPass, Delete,
\* Query or querySetNewEncryptedSecret; on a guarded route the message of an
\* allowed chat is answered with the request for the password or handed to
\* setPass.
C36_LockedRunsNoGuardedHandler ==
    ch.msg.locked =>
        /\ ~Ran("Set") /\ ~Ran("ResetPass") /\ ~Ran("Delete") /\ ~Ran("Query")
        /\ ~Ran("querySetNewEncryptedSecret")
        /\ ch.msg.passed = <<>>
        /\ (ch.msg.route \in GuardedRoutes /\ hasAccess(ch.msg.chat))
              => ((ch.msg.replies = <<"checkpass_please_enter_pass">> /\ ch.msg.ran = <<>>)
                     \/ ch.msg.ran = <<"setPass">>)

\* a /delete sent while locked, with a row in the sheet, is answered with the
\* request for the password
C36_Witness ==
    /\ ch.msg.locked
    /\ ch.msg.route = "/delete"
    /\ ch.rows /= <<>>
    /\ ch.msg.replies = <<"checkpass_please_enter_pass">>

NothingChanged ==
    /\ ch'.rows = ch.rows
    /\ remoteKey' = remoteKey /\ remoteMeta' = remoteMeta
    /\ confSalt' = confSalt /\ fileSalt' = fileSalt
    /\ mastePass' = mastePass
    /\ ch'.waitmp = ch.waitmp /\ ch'.setstate = ch.setstate

\* C39 (as stated): a message of a chat outside the allowed list, on any
\* route, runs no handler, gets only the reply "Access forbidden" and changes
\* nothing.
C39_DeniedChatOnlyGetsForbidden ==
    [][(ch'.n = ch.n + 1 /\ ~hasAccess(ch'.msg.chat))
          => /\ ch'.msg.ran = <<>>
             /\ ch'.msg.replies = <<"Access forbidden">>
             /\ NothingChanged]_vars

\* C39 (amended): a message of a chat outside the allowed list runs none of
\* Set, ResetPass, Delete, Query, querySetNewEncryptedSecret and setPass and
\* changes nothing; on /add, /setpass, /delete and text it runs no handler
\* and gets only the reply "Access forbidden"; on /start, /id and /generate
\* it runs the handler of the route.
C39_DeniedChatRunsNoGuardedOperation ==
    [][(ch'.n = ch.n + 1 /\ ~hasAccess(ch'.msg.chat))
          => /\ NothingChanged
             /\ ch'.msg.passed = <<>>
             /\ IF ch'.msg.route \in GuardedRoutes
                THEN ch'.msg.ran = <<>> /\ ch'.msg.replies = <<"Access forbidden">>
                ELSE ch'.msg.ran = <<CASE ch'.msg.route = "/start" -> "MakeStart"
                                       [] ch'.msg.route = "/id" -> "ID"
                                       [] ch'.msg.route = "/generate" -> "Generate">>]_vars

\* a chat outside the allowed list sent /delete to the unlocked bot, with a
\* row in the sheet and another chat about to add a secret
C39_Witness ==
    /\ ~hasAccess(ch.msg.chat)
    /\ ch.msg.route = "/delete"
    /\ ch.msg.replies = <<"Access forbidden">>
    /\ ~ch.msg.locked
    /\ ch.rows /= <<>>
    /\ ch.setstate /= {}

====
